---- MODULE Spec2Model ----
(***************************************************************************)
(* Spotify song logger: the play-ingestion pipeline (api/log-spotify and   *)
(* scripts/run-local-logger.js), the retry-queue processor                  *)
(* (api/retry-failed.js), the play filter, the sheet deduplication and the  *)
(* persisted state document (lib/state-manager.js).                         *)
(*                                                                         *)
(* Timestamps are epoch milliseconds.  An ISO-8601 string with millisecond *)
(* precision and its epoch value determine each other, so Date parsing and *)
(* toISOString() are carried by the integer itself.                        *)
(* A JavaScript null is the empty sequence, a present object a sequence of *)
(* length one.                                                             *)
(***************************************************************************)
EXTENDS Integers, Sequences, FiniteSets, TLC

VARIABLES doc, sheet, now, res, procs, store

\* doc:   the persisted state document as loadState returns it
\* sheet: the rows of the Listening Log, header first
\* now:   the clock
\* res:   what the last operation answered
\* procs: the invocations in flight, each with what it holds between awaits
\* store: the state files, the KV key and the DEFAULT_STATE object in memory
vars == <<doc, sheet, now, res, procs, store>>

(***************************************************************************)
(* Program constants                                                       *)
(***************************************************************************)
MIN_PLAY_DURATION_MS == 30000

MAX_RETRY_ATTEMPTS == 3

MAX_ENTRIES_PER_RUN == 50

RETRY_DELAY_FIRST_MS == 3600000

RETRY_DELAY_SECOND_MS == 86400000

ERROR_ROW_WINDOW_MS == 5 * 60 * 1000

\* api/retry-failed.js: the loop stops once a pass has run longer than this
EXECUTION_TIMEOUT_MS == 45000

(***************************************************************************)
(* Bounds of the model                                                     *)
(***************************************************************************)
MaxFetch == 2

MaxRows == 2

MaxQueue == 2

MaxCount == 6

MaxAttemptSeen == 4

MaxHours == 1

TickMs == MIN_PLAY_DURATION_MS \div 2

TrackIds == {1, 2}

PlayTimes == {TickMs, 2 * TickMs, 3 * TickMs}

Durations == {0, TickMs, MIN_PLAY_DURATION_MS}

\* an item of the recently-played response: track.id, played_at, track.duration_ms
Events == [id : TrackIds, played_at : PlayTimes, duration_ms : Durations]

RECURSIVE SeqsUpTo(_, _)
SeqsUpTo(S, n) ==
    IF n = 0 THEN {<<>>}
    ELSE LET shorter == SeqsUpTo(S, n - 1)
         IN  shorter \cup {Append(s, x) : s \in {t \in shorter : Len(t) = n - 1}, x \in S}

\* the recently-played endpoint returns playable tracks, most recent first
Descending(s) == \A i \in 1..(Len(s) - 1) : s[i].played_at > s[i + 1].played_at

\* what the listener played: track 1 at every tick (repeat plays less than,
\* and at least, MIN_PLAY_DURATION_MS apart), track 2 at the second tick
Played ==
    {e \in Events : /\ e.duration_ms = MIN_PLAY_DURATION_MS
                    /\ (e.id = 2 => e.played_at = 2 * TickMs)}

FetchLists == {s \in SeqsUpTo(Played, MaxFetch) : Descending(s)}

\* the instants at which jobs run: up to MaxHours first delays after the
\* start, and the same one second delay later
Clock == {a * RETRY_DELAY_FIRST_MS + b * RETRY_DELAY_SECOND_MS :
            a \in 0..MaxHours, b \in {0, 1}}

Abs(x) == IF x < 0 THEN -x ELSE x

Min(a, b) == IF a < b THEN a ELSE b

(***************************************************************************)
(* lib/data-formatter.js                                                   *)
(***************************************************************************)
\* new Date(timestamp).toISOString(): the same instant, millisecond precision
FormatTimestamp(timestamp) == timestamp

\* formatAsSheetRow(formatTrackForLogging(...)): columns 0 (Timestamp),
\* 7 (Track ID) and 26 (Status) of the 28-column row
FormatTrackRow(track, status) ==
    [timestamp |-> FormatTimestamp(track.played_at), trackId |-> track.id, status |-> status]

CreateErrorPlaceholder(track) ==
    [timestamp |-> FormatTimestamp(track.played_at), trackId |-> track.id, status |-> "ERROR"]

\* the header row written by init-sheets; its cells are never read as data
HeaderRow == [timestamp |-> 0, trackId |-> 0, status |-> "Status"]

(***************************************************************************)
(* lib/play-filter.js                                                      *)
(***************************************************************************)
\* a check that lets every item pass
IsValidPlayAny(track) == TRUE

IsValidPlay(track) ==
    LET trackDuration == track.duration_ms
    IN  IF trackDuration < MIN_PLAY_DURATION_MS THEN trackDuration > 0 ELSE TRUE

\* a check that takes every play of the last processed track for a duplicate
IsDuplicateSameTrack(track, lastProcessed) ==
    IF lastProcessed = <<>> \/ lastProcessed[1].trackId = 0
    THEN FALSE
    ELSE track.id = lastProcessed[1].trackId

IsDuplicate(track, lastProcessed) ==
    IF lastProcessed = <<>> \/ lastProcessed[1].trackId = 0
    THEN FALSE
    ELSE IF track.id = lastProcessed[1].trackId
         THEN Abs(track.played_at - lastProcessed[1].playedAt) < MIN_PLAY_DURATION_MS
         ELSE FALSE

\* the filter without rule (c), the cutoff at the last processed time
KeepNewPlayNoCutoff(track, lastProcessed, lastProcessedTime) ==
    /\ IsValidPlay(track)
    /\ ~IsDuplicate(track, lastProcessed)

KeepNewPlay(track, lastProcessed, lastProcessedTime) ==
    /\ IsValidPlay(track)
    /\ ~IsDuplicate(track, lastProcessed)
    /\ ~(track.played_at <= lastProcessedTime)

FilterNewPlays(recentTracks, lastProcessedState) ==
    LET lastProcessedTime ==
            IF lastProcessedState.lastProcessed = <<>> THEN 0
            ELSE lastProcessedState.lastProcessed[1].playedAt
    IN  SelectSeq(recentTracks,
                  LAMBDA track : KeepNewPlay(track, lastProcessedState.lastProcessed,
                                             lastProcessedTime))

\* Array.prototype.sort with (a, b) => timeA - timeB is stable: insertion keeps
\* equal timestamps in their order of arrival
RECURSIVE InsertByTimestamp(_, _)
InsertByTimestamp(sorted, track) ==
    IF sorted = <<>> THEN <<track>>
    ELSE IF sorted[Len(sorted)].played_at <= track.played_at
         THEN Append(sorted, track)
         ELSE Append(InsertByTimestamp(SubSeq(sorted, 1, Len(sorted) - 1), track),
                     sorted[Len(sorted)])

RECURSIVE SortTracksByTimestamp(_)
SortTracksByTimestamp(tracks) ==
    IF tracks = <<>> THEN <<>>
    ELSE InsertByTimestamp(SortTracksByTimestamp(SubSeq(tracks, 1, Len(tracks) - 1)),
                           tracks[Len(tracks)])

\* a choice of the first track of the list
GetFirstTrack(tracks) == IF tracks = <<>> THEN <<>> ELSE <<tracks[1]>>

\* tracks.reduce((latest, current) => currentTime > latestTime ? current : latest)
RECURSIVE GetMostRecentTrack(_)
GetMostRecentTrack(tracks) ==
    IF tracks = <<>> THEN <<>>
    ELSE IF Len(tracks) = 1 THEN <<tracks[1]>>
    ELSE LET latest  == GetMostRecentTrack(SubSeq(tracks, 1, Len(tracks) - 1))[1]
             current == tracks[Len(tracks)]
         IN  IF current.played_at > latest.played_at THEN <<current>> ELSE <<latest>>

(***************************************************************************)
(* lib/deduplication.js                                                    *)
(***************************************************************************)
\* sheetRows[0] is the header; JavaScript index i is position i + 1 here
FindLastProcessedInSheet(sheetRows) ==
    IF Len(sheetRows) <= 1 THEN <<>>
    ELSE LET lastRow == sheetRows[Len(sheetRows)]
         IN  IF lastRow.trackId = 0 \/ lastRow.timestamp = 0 THEN <<>>
             ELSE <<[trackId |-> lastRow.trackId, playedAt |-> lastRow.timestamp]>>

\* a reconciliation that drops the local marker when the sheet is ahead
ReconcileStateReset(sheetData, localState) ==
    LET sheetLastProcessed == FindLastProcessedInSheet(sheetData)
    IN  IF sheetLastProcessed = <<>> THEN localState
        ELSE IF localState.lastProcessed = <<>>
             THEN [localState EXCEPT !.lastProcessed = sheetLastProcessed]
             ELSE IF sheetLastProcessed[1].playedAt > localState.lastProcessed[1].playedAt
                  THEN [localState EXCEPT !.lastProcessed = <<>>]
                  ELSE localState

\* a reconciliation that takes the sheet's marker whenever there is one
ReconcileStatePreferSheet(sheetData, localState) ==
    LET sheetLastProcessed == FindLastProcessedInSheet(sheetData)
    IN  IF sheetLastProcessed = <<>> THEN localState
        ELSE [localState EXCEPT !.lastProcessed = sheetLastProcessed]

ReconcileState(sheetData, localState) ==
    LET sheetLastProcessed == FindLastProcessedInSheet(sheetData)
    IN  IF sheetLastProcessed = <<>> THEN localState
        ELSE IF localState.lastProcessed = <<>>
             THEN [lastProcessed |-> sheetLastProcessed,
                   failedQueue   |-> localState.failedQueue,
                   stats         |-> localState.stats]
             ELSE LET sheetTime == sheetLastProcessed[1].playedAt
                      localTime == localState.lastProcessed[1].playedAt
                  IN  IF sheetTime > localTime
                      THEN [lastProcessed |-> sheetLastProcessed,
                            failedQueue   |-> localState.failedQueue,
                            stats         |-> localState.stats]
                      ELSE localState

\* a match on the exact timestamp only
RowMatchesTrackExact(row, track) ==
    /\ ~(row.trackId = 0 \/ row.timestamp = 0)
    /\ row.trackId = track.id
    /\ track.played_at = row.timestamp

RowMatchesTrack(row, track) ==
    /\ ~(row.trackId = 0 \/ row.timestamp = 0)
    /\ row.trackId = track.id
    /\ Abs(track.played_at - row.timestamp) < MIN_PLAY_DURATION_MS

IsTrackInSheet(track, sheetRows) ==
    IF Len(sheetRows) <= 1 THEN FALSE
    ELSE \E i \in 2..Len(sheetRows) : RowMatchesTrack(sheetRows[i], track)

FilterDuplicatesAgainstSheet(tracks, sheetRows) ==
    SelectSeq(tracks, LAMBDA track : ~IsTrackInSheet(track, sheetRows))

(***************************************************************************)
(* lib/state-manager.js: the persisted document and its read-modify-write  *)
(* operations.  Each operator is the document the operation hands to       *)
(* saveState, computed from the document loadState returned.               *)
(***************************************************************************)
DEFAULT_STATE ==
    [lastProcessed |-> <<>>,
     failedQueue   |-> <<>>,
     stats         |-> [successCount |-> 0, failureCount |-> 0]]

UpdateLastProcessed(state, track) ==
    [state EXCEPT !.lastProcessed = <<[trackId |-> track.id, playedAt |-> track.played_at]>>]

SameEntry(item, trackId, playedAt) == item.trackId = trackId /\ item.playedAt = playedAt

\* findIndex: the first position that matches, 0 when there is none
FindIndex(queue, trackId, playedAt) ==
    IF \E i \in 1..Len(queue) : SameEntry(queue[i], trackId, playedAt)
    THEN CHOOSE i \in 1..Len(queue) :
            /\ SameEntry(queue[i], trackId, playedAt)
            /\ \A j \in 1..(i - 1) : ~SameEntry(queue[j], trackId, playedAt)
    ELSE 0

\* an addition that pushes a new entry without looking for an existing one
AddToFailedQueueAlwaysPush(state, track, clock) == [state EXCEPT !.failedQueue = Append(@, [trackId |-> track.id, playedAt |-> track.played_at, attemptCount |-> 1, lastAttempt |-> clock])]

AddToFailedQueue(state, track, clock) ==
    LET failedEntry   == [trackId |-> track.id, playedAt |-> track.played_at,
                          attemptCount |-> 1, lastAttempt |-> clock]
        existingIndex == FindIndex(state.failedQueue, failedEntry.trackId, failedEntry.playedAt)
    IN  IF existingIndex > 0
        THEN [state EXCEPT !.failedQueue[existingIndex].attemptCount = @ + 1,
                           !.failedQueue[existingIndex].lastAttempt = failedEntry.lastAttempt]
        ELSE [state EXCEPT !.failedQueue = Append(@, failedEntry)]

ClearFromFailedQueue(state, trackId, playedAt) ==
    [state EXCEPT !.failedQueue =
        SelectSeq(@, LAMBDA item : ~SameEntry(item, trackId, playedAt))]

UpdateStats(state, successCount, failureCount) ==
    [state EXCEPT !.stats.successCount = @ + successCount,
                  !.stats.failureCount = @ + failureCount]

\* a loop that queues the first failed track only
AddFirstToFailedQueue(state, failedTracks, n, clock) ==
    IF n = 0 THEN state ELSE AddToFailedQueue(state, failedTracks[1], clock)

\* addToFailedQueue applied to the first n of the failed tracks, in order
RECURSIVE AddAllToFailedQueue(_, _, _, _)
AddAllToFailedQueue(state, failedTracks, n, clock) ==
    IF n = 0 THEN state
    ELSE AddToFailedQueue(AddAllToFailedQueue(state, failedTracks, n - 1, clock),
                          failedTracks[n], clock)

(***************************************************************************)
(* api/log-spotify.js and scripts/run-local-logger.js: one pipeline run.   *)
(* The inputs of a run: the recently-played items, the positions of the    *)
(* unique tracks whose enrichment calls throw, the step that throws (if    *)
(* any; of the addToFailedQueue calls it is the first), whether a throwing *)
(* saveState had already written the document (saveStateKV throws when one *)
(* of the three kv.set calls after the first fails), and whether the       *)
(* persistence write of the catch block throws as well.                    *)
(***************************************************************************)
Outcome(d, sh, r) == [doc |-> d, sheet |-> sh, res |-> r]

\* the outcome of an operation: what it answered, the step that threw, the
\* stats of the JSON summary, and the per-entry results of a retry pass
Response(op, status, thrown, filtered, unique, logged, failed) ==
    [op |-> op, status |-> status, thrown |-> thrown, filtered |-> filtered,
     unique |-> unique, logged |-> logged, failed |-> failed, details |-> <<>>]

\* the log-spotify catch block: endExecution and trackFailedRun save the
\* document before res.status(500) is reached; the local script exits with 1
CaughtStatus(mode, catchFault) ==
    IF mode = "log" THEN (IF catchFault THEN "none" ELSE "500") ELSE "exit1"

DoneStatus(mode) == IF mode = "log" THEN "200" ELSE "exit0"

OpOf(mode) == mode

RECURSIVE PickFailed(_, _, _)
PickFailed(uniqueTracks, failSet, n) ==
    IF n = 0 THEN <<>>
    ELSE IF n \in failSet
         THEN Append(PickFailed(uniqueTracks, failSet, n - 1), uniqueTracks[n])
         ELSE PickFailed(uniqueTracks, failSet, n - 1)

RowsToAppend(uniqueTracks, failSet) ==
    [i \in 1..Len(uniqueTracks) |->
        IF i \in failSet THEN CreateErrorPlaceholder(uniqueTracks[i])
        ELSE FormatTrackRow(uniqueTracks[i], "COMPLETED")]

\* what saveState leaves behind: the new document, or the old one when it
\* threw before the write landed
Saved(old, new, threw, written) == IF threw /\ ~written THEN old ELSE new

\* steps 9 and 10 of the run, after the rows were appended: update state, finish
UpdateState(d, sh, filtered, uniqueTracks, failSet, fault, written, catchFault, mode, clock) ==
    LET failedTracks == PickFailed(uniqueTracks, failSet, Len(uniqueTracks))
        failureCount == Len(failedTracks)
        successCount == Len(uniqueTracks) - failureCount
        caught       == CaughtStatus(mode, catchFault)
        sheet2       == sh \o RowsToAppend(uniqueTracks, failSet)
        mostRecent   == GetMostRecentTrack(uniqueTracks)
        d1           == UpdateLastProcessed(d, mostRecent[1])
        d2           == AddAllToFailedQueue(d1, failedTracks, failureCount, clock)
        d3           == UpdateStats(d2, successCount, failureCount)
    IN  IF fault = "saveLastProcessed"
        THEN Outcome(Saved(d, d1, TRUE, written), sheet2,
                     Response(OpOf(mode), caught, "save", 0, 0, successCount, failureCount))
        ELSE IF fault = "saveQueue" /\ failureCount > 0
        THEN Outcome(Saved(d1, AddAllToFailedQueue(d1, failedTracks, 1, clock), TRUE, written),
                     sheet2,
                     Response(OpOf(mode), caught, "save", 0, 0, successCount, failureCount))
        ELSE IF fault = "saveStats"
        THEN Outcome(Saved(d2, d3, TRUE, written), sheet2,
                     Response(OpOf(mode), caught, "save", 0, 0, successCount, failureCount))
        ELSE IF fault = "saveMetrics" /\ mode = "log"
        THEN Outcome(d3, sheet2,
                     Response(OpOf(mode), caught, "save", 0, 0, successCount, failureCount))
        ELSE Outcome(d3, sheet2,
                     Response(OpOf(mode), DoneStatus(mode), "", filtered, Len(uniqueTracks),
                              successCount, failureCount))

\* a run that queues the failed tracks although the append threw
WriteAndUpdateQueueing(d, sh, filtered, uniqueTracks, failSet, fault, written, catchFault, mode, clock) ==
    LET failedTracks == PickFailed(uniqueTracks, failSet, Len(uniqueTracks))
        failureCount == Len(failedTracks)
    IN  IF fault = "append"
        THEN Outcome(AddAllToFailedQueue(d, failedTracks, failureCount, clock), sh,
                     Response(OpOf(mode), CaughtStatus(mode, catchFault), "append", 0, 0,
                              Len(uniqueTracks) - failureCount, failureCount))
        ELSE UpdateState(d, sh, filtered, uniqueTracks, failSet, fault, written, catchFault,
                         mode, clock)

\* steps 8 to 10 of the run: append, update state, finish
WriteAndUpdate(d, sh, filtered, uniqueTracks, failSet, fault, written, catchFault, mode, clock) ==
    LET failureCount == Cardinality(failSet)
    IN  IF fault = "append"
        THEN Outcome(d, sh,
                     Response(OpOf(mode), CaughtStatus(mode, catchFault), "append", 0, 0,
                              Len(uniqueTracks) - failureCount, failureCount))
        ELSE UpdateState(d, sh, filtered, uniqueTracks, failSet, fault, written, catchFault,
                         mode, clock)

\* a script that takes steps 8 and 9 whether or not --dry-run was given
WriteAlways(d, sh, filtered, uniqueTracks, failSet, fault, written, catchFault, mode, clock) ==
    WriteAndUpdate(d, sh, filtered, uniqueTracks, failSet, fault, written, catchFault, mode, clock)

\* steps 8 and 9: with options.dryRun nothing is appended and the state is
\* not updated
WriteUnlessDryRun(d, sh, filtered, uniqueTracks, failSet, fault, written, catchFault, mode, clock) ==
    IF mode = "dry"
    THEN Outcome(d, sh, Response(OpOf(mode), DoneStatus(mode), "", filtered, Len(uniqueTracks),
                                 Len(uniqueTracks) - Cardinality(failSet), Cardinality(failSet)))
    ELSE WriteAndUpdate(d, sh, filtered, uniqueTracks, failSet, fault, written, catchFault,
                        mode, clock)

PipelineOutcome(d, sh, tracks, failSet, fault, written, catchFault, mode, clock) ==
    LET state          == d
        caught         == CaughtStatus(mode, catchFault)
        filteredTracks == FilterNewPlays(tracks, state)
        sortedTracks   == SortTracksByTimestamp(filteredTracks)
        \* state = reconcileState(sheetRows, state): the local variable is
        \* reassigned and not read again by the run
        reconciled     == ReconcileState(sh, state)
        uniqueTracks   == FilterDuplicatesAgainstSheet(sortedTracks, sh)
        failureCount   == Cardinality(failSet)
        successCount   == Len(uniqueTracks) - failureCount
    IN  IF fault = "fetch"
        THEN Outcome(d, sh, Response(OpOf(mode), caught, "fetch", 0, 0, 0, 0))
        ELSE IF Len(tracks) = 0
        THEN Outcome(d, sh, Response(OpOf(mode), DoneStatus(mode), "", 0, 0, 0, 0))
        ELSE IF Len(filteredTracks) = 0
        THEN Outcome(d, sh, Response(OpOf(mode), DoneStatus(mode), "", 0, 0, 0, 0))
        ELSE IF fault = "rows"
        THEN Outcome(d, sh, Response(OpOf(mode), caught, "rows", 0, 0, 0, 0))
        ELSE IF Len(uniqueTracks) = 0
        THEN Outcome(d, sh, Response(OpOf(mode), DoneStatus(mode), "", Len(filteredTracks), 0, 0, 0))
        ELSE WriteUnlessDryRun(d, sh, Len(filteredTracks), uniqueTracks, failSet, fault,
                               written, catchFault, mode, clock)

(***************************************************************************)
(* api/retry-failed.js: one retry-processing pass.  The inputs of a pass:  *)
(* how many entries are evaluated before the 45 s check stops the loop,    *)
(* the positions whose retry succeeds (enrichment and updateRow both       *)
(* return), the step that throws and whether its write had landed.         *)
(***************************************************************************)
\* the row number (1-indexed, header is row 1) of the first matching ERROR row; 0 for null
FindErrorRowIndex(sheetRows, trackId, playedAt) ==
    LET Matches(i) == /\ sheetRows[i].trackId = trackId
                      /\ sheetRows[i].status = "ERROR"
                      /\ Abs(sheetRows[i].timestamp - playedAt) < ERROR_ROW_WINDOW_MS
    IN  IF \E i \in 2..Len(sheetRows) : Matches(i)
        THEN CHOOSE i \in 2..Len(sheetRows) : Matches(i) /\ \A j \in 2..(i - 1) : ~Matches(j)
        ELSE 0

\* a readiness test that ignores the time since the last attempt
IsReadyForRetryAtOnce(failedEntry, clock) == failedEntry.attemptCount \in {1, 2}

IsReadyForRetry(failedEntry, clock) ==
    LET timeSinceLastAttempt == clock - failedEntry.lastAttempt
    IN  IF failedEntry.attemptCount = 1 THEN timeSinceLastAttempt >= RETRY_DELAY_FIRST_MS
        ELSE IF failedEntry.attemptCount = 2 THEN timeSinceLastAttempt >= RETRY_DELAY_SECOND_MS
        ELSE FALSE

\* a loop that processes every entry it reaches
EntryOutcomeRetryAll(entry, i, okSet, clock) == IF i \in okSet THEN "succeeded" ELSE "failed"

\* what the loop does with the entry at position i
EntryOutcome(entry, i, okSet, clock) ==
    IF entry.attemptCount >= MAX_RETRY_ATTEMPTS THEN "maxedOut"
    ELSE IF ~IsReadyForRetry(entry, clock) THEN "skipped"
    ELSE IF i \in okSet THEN "succeeded"
    ELSE "failed"

LoopDetails(entries, evaluated, okSet, clock) ==
    [i \in 1..evaluated |->
        [trackId |-> entries[i].trackId, playedAt |-> entries[i].playedAt,
         attemptCount |-> entries[i].attemptCount,
         outcome |-> EntryOutcome(entries[i], i, okSet, clock)]]

\* processFailedEntry on success: the ERROR row found in the snapshot loaded
\* before the loop is overwritten with the completed row
RECURSIVE UpdateRows(_, _, _, _)
UpdateRows(sh, sheetRows, details, n) ==
    IF n = 0 THEN sh
    ELSE LET before   == UpdateRows(sh, sheetRows, details, n - 1)
             entry    == details[n]
             rowIndex == FindErrorRowIndex(sheetRows, entry.trackId, entry.playedAt)
         IN  IF entry.outcome = "succeeded" /\ rowIndex > 0
             THEN [before EXCEPT ![rowIndex] =
                      FormatTrackRow([id |-> entry.trackId, played_at |-> entry.playedAt],
                                     "COMPLETED")]
             ELSE before

WithOutcome(details, outcome) == SelectSeq(details, LAMBDA x : x.outcome = outcome)

\* a removal that empties the queue once a retry has succeeded
ClearWholeQueue(state, succeeded, n) == IF n = 0 THEN state ELSE [state EXCEPT !.failedQueue = <<>>]

\* clearFromFailedQueue for the first n successful retries
RECURSIVE ClearAll(_, _, _)
ClearAll(state, succeeded, n) ==
    IF n = 0 THEN state
    ELSE ClearFromFailedQueue(ClearAll(state, succeeded, n - 1),
                              succeeded[n].trackId, succeeded[n].playedAt)

\* the entries that failed again replace their queue entries
\* a pass that leaves the entries that failed again as they were
UpdateEntriesNoIncrement(state, failed, n, clock) == state

RECURSIVE UpdateEntries(_, _, _, _)
UpdateEntries(state, failed, n, clock) ==
    IF n = 0 THEN state
    ELSE LET before == UpdateEntries(state, failed, n - 1, clock)
             index  == FindIndex(before.failedQueue, failed[n].trackId, failed[n].playedAt)
         IN  IF index > 0
             THEN [before EXCEPT !.failedQueue[index] =
                      [trackId |-> failed[n].trackId, playedAt |-> failed[n].playedAt,
                       attemptCount |-> failed[n].attemptCount + 1, lastAttempt |-> clock]]
             ELSE before

\* a pass that keeps the entries that reached the maximum
RemoveMaxedOutKeep(state, maxedOut, n) == state

RECURSIVE RemoveMaxedOut(_, _, _)
RemoveMaxedOut(state, maxedOut, n) ==
    IF n = 0 THEN state
    ELSE ClearFromFailedQueue(RemoveMaxedOut(state, maxedOut, n - 1),
                              maxedOut[n].trackId, maxedOut[n].playedAt)

\* the alerts a pass sends for the entries it removes as maxed out: the
\* handler logs the removal and calls no alerting function
AlertsForMaxedOut(maxedOut) == <<>>

RetryResponse(status, thrown, details) ==
    [op |-> "retry", status |-> status, thrown |-> thrown, filtered |-> 0, unique |-> 0,
     logged |-> Len(WithOutcome(details, "succeeded")),
     failed |-> Len(WithOutcome(details, "failed")), details |-> details,
     alerts |-> AlertsForMaxedOut(WithOutcome(details, "maxedOut"))]

RetryOutcome(d, sh, cut, okSet, fault, written, clock) ==
    LET failedQueue      == d.failedQueue
        entriesToProcess == SubSeq(failedQueue, 1, Min(Len(failedQueue), MAX_ENTRIES_PER_RUN))
        evaluated        == Min(cut, Len(entriesToProcess))
        details          == LoopDetails(entriesToProcess, evaluated, okSet, clock)
        sheet2           == UpdateRows(sh, sh, details, evaluated)
        succeeded        == WithOutcome(details, "succeeded")
        failed           == WithOutcome(details, "failed")
        maxedOut         == WithOutcome(details, "maxedOut")
        d1               == ClearAll(d, succeeded, Len(succeeded))
        d2               == UpdateEntries(d1, failed, Len(failed), clock)
        d3               == RemoveMaxedOut(d2, maxedOut, Len(maxedOut))
        d4               == UpdateStats(d3, Len(succeeded), Len(failed))
    IN  IF Len(failedQueue) = 0
        THEN Outcome(d, sh, RetryResponse("200", "", <<>>))
        ELSE IF fault = "rows"
        THEN Outcome(d, sh, RetryResponse("500", "rows", <<>>))
        ELSE IF fault = "saveClear" /\ Len(succeeded) > 0
        THEN Outcome(Saved(d, ClearAll(d, succeeded, 1), TRUE, written),
                     sheet2, RetryResponse("500", "save", details))
        ELSE IF fault = "saveUpdate" /\ Len(failed) > 0
        THEN Outcome(Saved(d1, d2, TRUE, written), sheet2, RetryResponse("500", "save", details))
        ELSE IF fault = "saveMaxedOut" /\ Len(maxedOut) > 0
        THEN Outcome(Saved(d2, d3, TRUE, written), sheet2, RetryResponse("500", "save", details))
        ELSE IF fault = "saveStats"
        THEN Outcome(Saved(d3, d4, TRUE, written), sheet2, RetryResponse("500", "save", details))
        ELSE Outcome(d4, sheet2, RetryResponse("200", "", details))

(***************************************************************************)
(* The state machine                                                       *)
(***************************************************************************)
WithinBounds(o) ==
    /\ Len(o.sheet) - 1 <= MaxRows
    /\ Len(o.doc.failedQueue) <= MaxQueue
    /\ \A i \in 1..Len(o.doc.failedQueue) : o.doc.failedQueue[i].attemptCount <= MaxAttemptSeen
    /\ o.doc.stats.successCount <= MaxCount
    /\ o.doc.stats.failureCount <= MaxCount

SaveFaults == {"saveLastProcessed", "saveQueue", "saveStats", "saveMetrics", "saveClear",
               "saveUpdate", "saveMaxedOut"}

\* the faults that strike after the enrichment loop of a pipeline run
WriteFaults == {"append", "saveLastProcessed", "saveQueue", "saveStats", "saveMetrics"}

PipelineFaults == {"fetch", "rows"} \cup WriteFaults

\* the log-spotify invocations "a" and "b" and the retry-failed invocation "r"
Invocations == {"a", "b", "r"}

\* an invocation that has not started: nothing held, no state operation pending
IdleProc == [pc |-> "idle", unique |-> <<>>, ops |-> <<>>, held |-> <<>>]

NoProcs == [p \in Invocations |-> IdleProc]

\* a state file or KV key: nothing there, text that does not parse, or a document
Missing == [kind |-> "absent", state |-> DEFAULT_STATE]

\* no state file, no backup, no KV key; DEFAULT_STATE as the module declares it
NoStore ==
    [backend |-> "local", primary |-> Missing, backup |-> Missing, kv |-> Missing,
     defaults |-> DEFAULT_STATE]

Init ==
    /\ doc = DEFAULT_STATE
    /\ sheet = <<HeaderRow>>
    /\ now = 0
    /\ res = Response("init", "", "", 0, 0, 0, 0)
    /\ procs = NoProcs
    /\ store = NoStore

UniqueTracks(tracks) ==
    FilterDuplicatesAgainstSheet(SortTracksByTimestamp(FilterNewPlays(tracks, doc)), sheet)

\* a run in which no call other than the enrichment calls throws
RunPipeline ==
    \E mode \in {"log", "local", "dry"}, tracks \in FetchLists :
      \E failSet \in SUBSET (1..Len(UniqueTracks(tracks))) :
        \E out \in {PipelineOutcome(doc, sheet, tracks, failSet, "", FALSE, FALSE, mode, now)} :
            /\ WithinBounds(out)
            /\ doc' = out.doc
            /\ sheet' = out.sheet
            /\ res' = out.res
            /\ UNCHANGED <<now, procs, store>>

\* a run in which one step throws; a throwing fetch returns no list
RunPipelineFault ==
    \E mode \in {"log", "local"}, fault \in PipelineFaults, tracks \in FetchLists :
      /\ (fault = "fetch") = (tracks = <<>>)
      /\ (fault = "saveMetrics") => mode = "log"
      /\ (fault = "rows") => Len(FilterNewPlays(tracks, doc)) > 0
      /\ \E survivors \in {Len(UniqueTracks(tracks))} :
             /\ (fault \in WriteFaults) => survivors > 0
             /\ \E failSet \in SUBSET (1..survivors),
                   written \in BOOLEAN, catchFault \in BOOLEAN :
                  /\ (fault = "rows") => failSet = {}
                  /\ (fault = "saveQueue") => failSet # {}
                  /\ written => fault \in SaveFaults \ {"saveMetrics"}
                  /\ catchFault => (fault \in SaveFaults /\ mode = "log")
                  /\ \E out \in {PipelineOutcome(doc, sheet, tracks, failSet, fault, written,
                                             catchFault, mode, now)} :
                         /\ WithinBounds(out)
                         /\ doc' = out.doc
                         /\ sheet' = out.sheet
                         /\ res' = out.res
                         /\ UNCHANGED <<now, procs, store>>

\* a retry pass in which no state or sheet call throws outside processFailedEntry
RetryFailed ==
    \E cut \in 0..Len(doc.failedQueue), okSet \in SUBSET (1..Len(doc.failedQueue)) :
        \E out \in {RetryOutcome(doc, sheet, cut, okSet, "", FALSE, now)} :
            /\ WithinBounds(out)
            /\ doc' = out.doc
            /\ sheet' = out.sheet
            /\ res' = out.res
            /\ UNCHANGED <<now, procs, store>>

\* a direct call of the exported addToFailedQueue
CallAddToFailedQueue ==
    \E track \in Played :
        \E state \in {AddToFailedQueue(doc, track, now)} :
            /\ WithinBounds(Outcome(state, sheet, res))
            /\ doc' = state
            /\ res' = Response("add", "", "", 0, 0, 0, 0)
            /\ UNCHANGED <<sheet, now, procs, store>>

\* clearAllState(), or the state file / KV key being deleted
ClearAllState ==
    /\ doc' = DEFAULT_STATE
    /\ res' = Response("clear", "", "", 0, 0, 0, 0)
    /\ UNCHANGED <<sheet, now, procs, store>>

\* the clock moves on by one of the two retry delays
Tick ==
    \E d \in {RETRY_DELAY_FIRST_MS, RETRY_DELAY_SECOND_MS} :
        /\ now + d \in Clock
        /\ now' = now + d
        /\ res' = Response("tick", "", "", 0, 0, 0, 0)
        /\ UNCHANGED <<doc, sheet, procs, store>>

\* the scheduled jobs, the clock and the loss of the state document
Next ==
    \/ RunPipeline
    \/ RetryFailed
    \/ ClearAllState
    \/ Tick

Spec == Init /\ [][Next]_vars

\* pipeline runs in which any one step may throw
NextFault ==
    \/ RunPipeline
    \/ RunPipelineFault
    \/ ClearAllState

SpecFault == Init /\ [][NextFault]_vars

\* the failed queue driven through its exported operations
NextQueue ==
    \/ CallAddToFailedQueue
    \/ RetryFailed
    \/ ClearAllState
    \/ Tick

SpecQueue == Init /\ [][NextQueue]_vars

(***************************************************************************)
(* filterNewPlays as a function: any state document, any list of items     *)
(***************************************************************************)
LastProcessedValues ==
    {<<>>} \cup {<<[trackId |-> id, playedAt |-> t]>> : id \in TrackIds, t \in PlayTimes}

\* items without a track object: track.track?.id is undefined (0 here) and
\* track.track?.duration_ms || 0 is 0
MissingTrack == [id : {0}, played_at : PlayTimes, duration_ms : {0}]

\* items whose track reports a negative duration
NegativeDuration == [id : TrackIds, played_at : PlayTimes, duration_ms : {0 - TickMs}]

FilterEvents == Events \cup MissingTrack \cup NegativeDuration

InitFilter ==
    /\ doc \in {[DEFAULT_STATE EXCEPT !.lastProcessed = lp] : lp \in LastProcessedValues}
    /\ sheet = <<HeaderRow>>
    /\ now = 0
    /\ res = Response("init", "", "", 0, 0, 0, 0)
    /\ procs = NoProcs
    /\ store = NoStore

\* the caller holds a list of recently played items
ReceiveTracks ==
    /\ res.op = "init"
    /\ \E recentTracks \in SeqsUpTo(FilterEvents, MaxFetch) :
        /\ res' = [Response("tracks", "", "", 0, 0, 0, 0) EXCEPT !.details = recentTracks]
        /\ UNCHANGED <<doc, sheet, now, procs, store>>

\* filterNewPlays(recentTracks, state); res.details is the result and
\* res.given the list it was called with
CallFilterNewPlays ==
    /\ res.op = "tracks"
    /\ LET newPlays == FilterNewPlays(res.details, doc)
       IN  res' = [op |-> "filter", status |-> "", thrown |-> "",
                   filtered |-> Len(newPlays), unique |-> 0, logged |-> 0,
                   failed |-> 0, details |-> newPlays, given |-> res.details]
    /\ UNCHANGED <<doc, sheet, now, procs, store>>

NextFilter ==
    \/ ReceiveTracks
    \/ CallFilterNewPlays

SpecFilter == InitFilter /\ [][NextFilter]_vars

(***************************************************************************)
(* A retry pass over a long queue, with the time each loop check reads.    *)
(* The pass begins (startTime) base ms before the first check, and every   *)
(* entry the loop evaluates takes step ms.                                 *)
(***************************************************************************)
BatchLengths == {1, 2, MAX_ENTRIES_PER_RUN - 1, MAX_ENTRIES_PER_RUN, MAX_ENTRIES_PER_RUN + 1,
                 MAX_ENTRIES_PER_RUN + 2}

BaseMs == {0, 500}

StepMs == {0, 900, 1000, EXECUTION_TIMEOUT_MS, EXECUTION_TIMEOUT_MS + 1}

\* Date.now() - startTime at the check of iteration i
ElapsedAt(i, base, step) == base + (i - 1) * step

\* a loop without the timeout check
EvaluatedWithoutTimeout(n, base, step) == n

\* how many iterations pass the check `Date.now() - startTime > EXECUTION_TIMEOUT_MS`
\* before the first one breaks
EvaluatedBeforeTimeout(n, base, step) ==
    IF \E i \in 1..n : ElapsedAt(i, base, step) > EXECUTION_TIMEOUT_MS
    THEN (CHOOSE i \in 1..n :
            /\ ElapsedAt(i, base, step) > EXECUTION_TIMEOUT_MS
            /\ \A j \in 1..(i - 1) : ~(ElapsedAt(j, base, step) > EXECUTION_TIMEOUT_MS)) - 1
    ELSE n

\* entry i of a long queue: plays of track 1 one minute apart, queued at clock
\* 0, standing at one, two or three attempts
BatchEntry(i) ==
    [trackId |-> 1, playedAt |-> i * 4 * TickMs, attemptCount |-> 1 + (i % 3), lastAttempt |-> 0]

InitBatch ==
    /\ \E n \in BatchLengths :
          /\ doc = [DEFAULT_STATE EXCEPT !.failedQueue = [i \in 1..n |-> BatchEntry(i)],
                                         !.lastProcessed = <<[trackId |-> 1,
                                                              playedAt |-> n * 4 * TickMs]>>,
                                         !.stats.failureCount = n]
          /\ sheet = <<HeaderRow>> \o
                     [i \in 1..n |-> CreateErrorPlaceholder([id |-> 1,
                                                             played_at |-> i * 4 * TickMs])]
    /\ now = RETRY_DELAY_FIRST_MS
    /\ res = Response("init", "", "", 0, 0, 0, 0)
    /\ procs = NoProcs
    /\ store = NoStore

\* a retry pass whose loop reads the clock; res.elapsed keeps what the check
\* of each evaluated entry read
RetryBatch ==
    \E base \in BaseMs, step \in StepMs, okAll \in BOOLEAN :
      \E cut \in {EvaluatedBeforeTimeout(Min(Len(doc.failedQueue), MAX_ENTRIES_PER_RUN),
                                         base, step)} :
        \E out \in {RetryOutcome(doc, sheet, cut,
                                 IF okAll THEN 1..Len(doc.failedQueue) ELSE {}, "", FALSE, now)} :
            /\ doc' = out.doc
            /\ sheet' = out.sheet
            /\ res' = [op |-> "retry", status |-> out.res.status, thrown |-> out.res.thrown,
                       filtered |-> 0, unique |-> 0, logged |-> out.res.logged,
                       failed |-> out.res.failed, details |-> out.res.details,
                       elapsed |-> [i \in 1..Len(out.res.details) |-> ElapsedAt(i, base, step)]]
            /\ UNCHANGED <<now, procs, store>>

NextBatch == RetryBatch

SpecBatch == InitBatch /\ [][NextBatch]_vars

(***************************************************************************)
(* reconcileState as a function: any sheet, any local state.  A row of a   *)
(* sheet that was edited by hand may lack its track ID or its timestamp.   *)
(***************************************************************************)
MaxCalls == 2

SheetRowValues ==
    [timestamp : {0} \cup PlayTimes, trackId : {0} \cup TrackIds, status : {"COMPLETED"}]

LocalStates ==
    {[lastProcessed |-> lp, failedQueue |-> q,
      stats |-> [successCount |-> Len(q), failureCount |-> Len(q)]] :
        lp \in LastProcessedValues,
        q \in {<<>>, <<[trackId |-> 1, playedAt |-> TickMs, attemptCount |-> 1,
                       lastAttempt |-> 0]>>}}

InitReconcile ==
    /\ doc \in LocalStates
    /\ sheet \in {<<HeaderRow>> \o rows : rows \in SeqsUpTo(SheetRowValues, MaxRows)}
    /\ now = 0
    /\ res = Response("init", "", "", 0, 0, 0, 0)
    /\ procs = NoProcs
    /\ store = NoStore

\* state = reconcileState(sheetRows, state); res.filtered counts the calls and
\* res.details keeps the local state the first call was given
CallReconcileState ==
    /\ res.filtered < MaxCalls
    /\ doc' = ReconcileState(sheet, doc)
    /\ res' = [Response("reconcile", "", "", res.filtered + 1, 0, 0, 0)
                  EXCEPT !.details = IF res.op = "init" THEN <<doc>> ELSE res.details]
    /\ UNCHANGED <<sheet, now, procs, store>>

NextReconcile == CallReconcileState

SpecReconcile == InitReconcile /\ [][NextReconcile]_vars

(***************************************************************************)
(* Invocations that overlap.  Every state operation of the state manager   *)
(* is loadState, a change of the loaded object, saveState; the two awaits  *)
(* are separate steps, and between them the invocation holds the document  *)
(* it loaded.  A log-spotify invocation reads the sheet (getAllRows) and   *)
(* appends to it (appendRows) in separate steps as well.                   *)
(***************************************************************************)
MaxRaceFetch == 1

MaxRaceRows == 3

RaceFetchLists == SeqsUpTo(Played, MaxRaceFetch)

\* a pending state operation
StateOp(kind, arg, successCount, failureCount) ==
    [kind |-> kind, arg |-> arg, successCount |-> successCount, failureCount |-> failureCount]

\* the document the operation hands to saveState, given the document it loaded
ApplyOp(op, state, clock) ==
    IF op.kind = "updateLastProcessed" THEN UpdateLastProcessed(state, op.arg[1])
    ELSE IF op.kind = "addToFailedQueue" THEN AddToFailedQueue(state, op.arg[1], clock)
    ELSE IF op.kind = "clearFromFailedQueue"
    THEN ClearFromFailedQueue(state, op.arg[1].trackId, op.arg[1].playedAt)
    ELSE IF op.kind = "updateEntries" THEN UpdateEntries(state, op.arg, Len(op.arg), clock)
    ELSE IF op.kind = "removeMaxedOut" THEN RemoveMaxedOut(state, op.arg, Len(op.arg))
    ELSE UpdateStats(state, op.successCount, op.failureCount)

\* clearFromFailedQueue saves only when it removed something
SavesAfter(op, state) ==
    op.kind = "clearFromFailedQueue" =>
        FindIndex(state.failedQueue, op.arg[1].trackId, op.arg[1].playedAt) > 0

\* steps 9 of a log-spotify run as state operations, in the order of the code
PipelineOps(uniqueTracks, failSet) ==
    LET failedTracks == PickFailed(uniqueTracks, failSet, Len(uniqueTracks))
        failureCount == Len(failedTracks)
    IN  <<StateOp("updateLastProcessed", GetMostRecentTrack(uniqueTracks), 0, 0)>>
        \o [i \in 1..failureCount |-> StateOp("addToFailedQueue", <<failedTracks[i]>>, 0, 0)]
        \o <<StateOp("updateStats", <<>>, Len(uniqueTracks) - failureCount, failureCount)>>

\* the state updates of a retry pass as state operations, in the order of the code
RetryOps(details) ==
    LET succeeded == WithOutcome(details, "succeeded")
        failed    == WithOutcome(details, "failed")
        maxedOut  == WithOutcome(details, "maxedOut")
    IN  [i \in 1..Len(succeeded) |-> StateOp("clearFromFailedQueue", <<succeeded[i]>>, 0, 0)]
        \o (IF Len(failed) > 0 THEN <<StateOp("updateEntries", failed, 0, 0)>> ELSE <<>>)
        \o (IF Len(maxedOut) > 0 THEN <<StateOp("removeMaxedOut", maxedOut, 0, 0)>> ELSE <<>>)
        \o <<StateOp("updateStats", <<>>, Len(succeeded), Len(failed))>>

\* the document and the sheet as one earlier run at clock 0 left them; the
\* overlapping invocations start one retry delay later
InitRace ==
    /\ \E tracks \in RaceFetchLists, failSet \in SUBSET (1..MaxRaceFetch) :
          /\ failSet \subseteq 1..Len(tracks)
          /\ \E out \in {PipelineOutcome(DEFAULT_STATE, <<HeaderRow>>, tracks, failSet, "",
                                         FALSE, FALSE, "log", 0)} :
                 doc = out.doc /\ sheet = out.sheet
    /\ now = RETRY_DELAY_FIRST_MS
    /\ res = Response("init", "", "", 0, 0, 0, 0)
    /\ procs = NoProcs
    /\ store = NoStore

\* steps 1 to 6 of a log-spotify run: load the state, fetch, filter, read the
\* sheet, drop what the sheet already holds
ReadSheet(p) ==
    /\ procs[p].pc = "idle"
    /\ \E tracks \in RaceFetchLists :
        \E uniqueTracks \in {UniqueTracks(tracks)} :
            procs' = [procs EXCEPT ![p].unique = uniqueTracks,
                                   ![p].pc = IF Len(uniqueTracks) = 0 THEN "done" ELSE "read"]
    /\ UNCHANGED <<doc, sheet, now, res, store>>

\* steps 7 and 8: enrich each unique track, append the rows
AppendRows(p) ==
    /\ procs[p].pc = "read"
    /\ \E failSet \in SUBSET (1..Len(procs[p].unique)) :
        /\ sheet' = sheet \o RowsToAppend(procs[p].unique, failSet)
        /\ procs' = [procs EXCEPT ![p].pc = "update",
                                  ![p].ops = PipelineOps(procs[p].unique, failSet)]
    /\ Len(sheet') - 1 <= MaxRaceRows
    /\ UNCHANGED <<doc, now, res, store>>

\* a retry pass up to the end of its loop: queue and sheet are read, the
\* entries are evaluated, the rows of the successful retries are rewritten
StartRetry(p) ==
    /\ procs[p].pc = "idle"
    /\ \E cut \in 0..Len(doc.failedQueue), okSet \in SUBSET (1..Len(doc.failedQueue)) :
        \E details \in {LoopDetails(doc.failedQueue, cut, okSet, now)} :
            /\ sheet' = UpdateRows(sheet, sheet, details, cut)
            /\ procs' = [procs EXCEPT
                            ![p].pc = IF Len(doc.failedQueue) = 0 THEN "done" ELSE "update",
                            ![p].ops = IF Len(doc.failedQueue) = 0 THEN <<>>
                                       ELSE RetryOps(details)]
    /\ UNCHANGED <<doc, now, res, store>>

\* loadState of the next pending state operation
LoadStep(p) ==
    /\ procs[p].pc = "update"
    /\ procs[p].held = <<>>
    /\ procs' = [procs EXCEPT ![p].held = <<doc>>]
    /\ UNCHANGED <<doc, sheet, now, res, store>>

\* the change and the saveState of that operation: what is written is
\* computed from the document the invocation loaded
SaveStep(p) ==
    /\ procs[p].pc = "update"
    /\ procs[p].held # <<>>
    /\ LET op == Head(procs[p].ops)
       IN  /\ doc' = IF SavesAfter(op, procs[p].held[1])
                     THEN ApplyOp(op, procs[p].held[1], now)
                     ELSE doc
           /\ procs' = [procs EXCEPT ![p].held = <<>>,
                                     ![p].ops = Tail(@),
                                     ![p].pc = IF Len(procs[p].ops) = 1 THEN "done"
                                               ELSE "update"]
    /\ UNCHANGED <<sheet, now, res, store>>

\* one log-spotify invocation and one retry-failed invocation, both started
\* by the cron trigger of minute 0
NextRace ==
    \/ ReadSheet("a")
    \/ AppendRows("a")
    \/ StartRetry("r")
    \/ \E p \in {"a", "r"} : LoadStep(p)
    \/ \E p \in {"a", "r"} : SaveStep(p)

SpecRace == InitRace /\ [][NextRace]_vars

\* two log-spotify invocations at the same time
NextTwin ==
    \/ \E p \in {"a", "b"} : ReadSheet(p)
    \/ \E p \in {"a", "b"} : AppendRows(p)
    \/ \E p \in {"a", "b"} : LoadStep(p)
    \/ \E p \in {"a", "b"} : SaveStep(p)

SpecTwin == InitRace /\ [][NextTwin]_vars

(***************************************************************************)
(* The two storage backends of the state manager.  store.primary and       *)
(* store.backup are logger-state.json and logger-state.backup.json,        *)
(* store.kv is the key state:full, store.defaults is the module-level      *)
(* object DEFAULT_STATE of the running process.  `{ ...DEFAULT_STATE }` is *)
(* a shallow copy: its failedQueue array and its stats object are the ones *)
(* of DEFAULT_STATE, so a push, an element assignment or a `+=` on them    *)
(* changes DEFAULT_STATE as well.                                          *)
(***************************************************************************)
MaxStoreCount == 2

Json(state) == [kind |-> "json", state |-> state]

\* a file whose text does not parse (cut short by a failed write, edited by hand)
Corrupt == [kind |-> "corrupt", state |-> DEFAULT_STATE]

\* what a load returns: the object, and whether its nested members are those
\* of DEFAULT_STATE
Loaded(state, shared) == [state |-> state, shared |-> shared]

\* return { ...DEFAULT_STATE }
DefaultCopy(st) == Loaded(st.defaults, TRUE)

\* readFault: reading the state file fails although it is there;
\* backupFault: reading the backup file fails although it is there
LoadStateLocal(st, readFault, backupFault) ==
    IF st.primary.kind = "json" /\ ~readFault THEN Loaded(st.primary.state, FALSE)
    ELSE IF st.primary.kind = "absent" THEN DefaultCopy(st)
    ELSE IF st.backup.kind = "json" /\ ~backupFault THEN Loaded(st.backup.state, FALSE)
    ELSE DefaultCopy(st)

\* readFault: getKVClient or kv.get throws
LoadStateKV(st, readFault) ==
    IF readFault THEN DefaultCopy(st)
    ELSE IF st.kv.kind = "json" THEN Loaded(st.kv.state, FALSE)
    ELSE DefaultCopy(st)

LoadState(st, readFault, backupFault) ==
    IF st.backend = "kv" THEN LoadStateKV(st, readFault)
    ELSE LoadStateLocal(st, readFault, backupFault)

\* what a save leaves behind, and whether it threw
SaveResult(st, threw) == [store |-> st, threw |-> threw]

\* backupFault: reading the current file or writing the backup fails (the
\* inner catch swallows it); writeFault: writing the state file fails;
\* torn: the failed write left text that does not parse
SaveStateLocal(st, state, backupFault, writeFault, torn) ==
    SaveResult([st EXCEPT !.backup = IF st.primary.kind = "absent" THEN @
                                     ELSE IF backupFault THEN (IF torn THEN Corrupt ELSE @)
                                     ELSE st.primary,
                          !.primary = IF writeFault THEN (IF torn THEN Corrupt ELSE @)
                                      ELSE Json(state)],
               writeFault)

\* writeFault: one of the four kv.set calls throws; torn: it was not the
\* first, so state:full was written
SaveStateKV(st, state, writeFault, torn) ==
    SaveResult([st EXCEPT !.kv = IF writeFault /\ ~torn THEN @ ELSE Json(state)], writeFault)

SaveState(st, state, backupFault, writeFault, torn) ==
    IF st.backend = "kv" THEN SaveStateKV(st, state, writeFault, torn)
    ELSE SaveStateLocal(st, state, backupFault, writeFault, torn)

\* the changes an operation makes to the nested members of a loaded object
\* reach DEFAULT_STATE when the object is a default copy
Mutated(st, loaded, new) ==
    IF loaded.shared
    THEN [st EXCEPT !.defaults.failedQueue = new.failedQueue, !.defaults.stats = new.stats]
    ELSE st

StoreTrack == [id |-> 1, played_at |-> TickMs, duration_ms |-> MIN_PLAY_DURATION_MS]

StoreOps ==
    {StateOp("updateLastProcessed", <<StoreTrack>>, 0, 0),
     StateOp("addToFailedQueue", <<StoreTrack>>, 0, 0),
     StateOp("updateStats", <<>>, 1, 0)}

StoreWithin(state) ==
    /\ Len(state.failedQueue) <= MaxStoreCount
    /\ \A i \in 1..Len(state.failedQueue) : state.failedQueue[i].attemptCount <= MaxStoreCount
    /\ state.stats.successCount <= MaxStoreCount

StoreResponse(op, status, loaded) ==
    [Response(op, status, "", 0, 0, 0, 0) EXCEPT !.details = loaded]

\* a process with no state files and no KV key, on either backend
InitStore ==
    /\ doc = DEFAULT_STATE
    /\ sheet = <<HeaderRow>>
    /\ now = 0
    /\ res = Response("init", "", "", 0, 0, 0, 0)
    /\ procs = NoProcs
    /\ store \in {[NoStore EXCEPT !.backend = b] : b \in {"local", "kv"}}

\* which reads failed inside a load
FaultsOf(readFault, backupFault) ==
    IF readFault /\ backupFault THEN "both"
    ELSE IF readFault THEN "read"
    ELSE IF backupFault THEN "backup"
    ELSE ""

\* loadState(); res.details holds what it returned, res.thrown the reads
\* that failed inside it
CallLoadState ==
    \E readFault \in BOOLEAN, backupFault \in BOOLEAN :
        /\ res' = [StoreResponse("load", "ok",
                                 <<LoadState(store, readFault, backupFault).state>>)
                      EXCEPT !.thrown = FaultsOf(readFault, backupFault)]
        /\ UNCHANGED <<doc, sheet, now, procs, store>>

\* updateLastProcessed, addToFailedQueue or updateStats: load, change, save
CallStateOp ==
    \E op \in StoreOps, readFault \in BOOLEAN, backupFault \in BOOLEAN,
       writeFault \in BOOLEAN, torn \in BOOLEAN :
        /\ torn => (backupFault \/ writeFault)
        /\ \E loaded \in {LoadState(store, readFault, backupFault)} :
            \E new \in {ApplyOp(op, loaded.state, now)} :
              \E saved \in {SaveState(Mutated(store, loaded, new), new, backupFault,
                                      writeFault, torn)} :
                /\ StoreWithin(new)
                /\ store' = saved.store
                /\ res' = StoreResponse(op.kind, IF saved.threw THEN "threw" ELSE "ok", <<new>>)
        /\ UNCHANGED <<doc, sheet, now, procs>>

\* clearAllState(): saveState({ ...DEFAULT_STATE })
CallClearAllState ==
    \E backupFault \in BOOLEAN, writeFault \in BOOLEAN, torn \in BOOLEAN :
        /\ torn => (backupFault \/ writeFault)
        /\ \E saved \in {SaveState(store, store.defaults, backupFault, writeFault, torn)} :
              /\ store' = saved.store
              /\ res' = StoreResponse("clearAllState", IF saved.threw THEN "threw" ELSE "ok",
                                      <<store.defaults>>)
        /\ UNCHANGED <<doc, sheet, now, procs>>

\* the process ends and a new one evaluates the module: DEFAULT_STATE is as declared
RestartProcess ==
    /\ store.defaults # DEFAULT_STATE
    /\ store' = [store EXCEPT !.defaults = DEFAULT_STATE]
    /\ res' = StoreResponse("restart", "", <<>>)
    /\ UNCHANGED <<doc, sheet, now, procs>>

\* the state file is damaged or removed from outside the program
DamageStateFile ==
    /\ store.backend = "local"
    /\ store.primary.kind = "json"
    /\ \E damaged \in {Corrupt, Missing} :
          store' = [store EXCEPT !.primary = damaged]
    /\ res' = StoreResponse("damage", "", <<>>)
    /\ UNCHANGED <<doc, sheet, now, procs>>

NextStore ==
    \/ CallLoadState
    \/ CallStateOp
    \/ CallClearAllState
    \/ RestartProcess
    \/ DamageStateFile

SpecStore == InitStore /\ [][NextStore]_vars

(***************************************************************************)
(* lib/spotify-api.js: one request of the streaming-API client.  The       *)
(* inputs are the answers the HTTP attempts receive, in order, and the     *)
(* Retry-After header (seconds) of the 429 answers.                        *)
(***************************************************************************)
MAX_RETRIES == 3

INITIAL_RETRY_DELAY == 1000

MaxResponses == 5

\* 200; rate limited; server error; token refused; any other failure
HttpStatuses == {"200", "429", "503", "401", "404"}

RetryAfterValues == {1, 2}

ResponseLists == {r \in SeqsUpTo(HttpStatuses, MaxResponses) : Len(r) = MaxResponses}

RECURSIVE Pow2(_)
Pow2(n) == IF n = 0 THEN 1 ELSE 2 * Pow2(n - 1)

RequestResult(outcome, attempts, waits) ==
    [outcome |-> outcome, attempts |-> attempts, waits |-> waits]

Waited(ms, result) == [result EXCEPT !.waits = <<ms>> \o @]

\* a client that retries while retryCount <= MAX_RETRIES
RECURSIVE MakeSpotifyRequestOneMore(_, _, _)
MakeSpotifyRequestOneMore(responses, retryCount, retryAfter) ==
    LET status == responses[retryCount + 1]
    IN  IF status = "200" THEN RequestResult("returned", retryCount + 1, <<>>)
        ELSE IF status = "429" /\ retryCount <= MAX_RETRIES
        THEN Waited(retryAfter * 1000,
                    MakeSpotifyRequestOneMore(responses, retryCount + 1, retryAfter))
        ELSE IF status = "503" /\ retryCount <= MAX_RETRIES
        THEN Waited(INITIAL_RETRY_DELAY * Pow2(retryCount),
                    MakeSpotifyRequestOneMore(responses, retryCount + 1, retryAfter))
        ELSE RequestResult("threw", retryCount + 1, <<>>)

\* makeSpotifyRequest(endpoint, options, retryCount): the attempt number
\* retryCount + 1 receives responses[retryCount + 1]
RECURSIVE MakeSpotifyRequest(_, _, _)
MakeSpotifyRequest(responses, retryCount, retryAfter) ==
    LET status == responses[retryCount + 1]
    IN  IF status = "200" THEN RequestResult("returned", retryCount + 1, <<>>)
        ELSE IF status = "429" /\ retryCount < MAX_RETRIES
        THEN Waited(retryAfter * 1000,
                    MakeSpotifyRequest(responses, retryCount + 1, retryAfter))
        ELSE IF status = "503" /\ retryCount < MAX_RETRIES
        THEN Waited(INITIAL_RETRY_DELAY * Pow2(retryCount),
                    MakeSpotifyRequest(responses, retryCount + 1, retryAfter))
        ELSE IF status = "401" THEN RequestResult("threw", retryCount + 1, <<>>)
        ELSE RequestResult("threw", retryCount + 1, <<>>)

RequestInput(responses, retryAfter) ==
    [Response("responses", "", "", 0, 0, 0, 0)
        EXCEPT !.details = <<[responses |-> responses, retryAfter |-> retryAfter]>>]

InitRequest ==
    /\ doc = DEFAULT_STATE
    /\ sheet = <<HeaderRow>>
    /\ now = 0
    /\ res \in {RequestInput(r, a) : r \in ResponseLists, a \in RetryAfterValues}
    /\ procs = NoProcs
    /\ store = NoStore

\* one call of an exported request function; res keeps the answers it was
\* given and what it did
CallMakeSpotifyRequest ==
    /\ res.op = "responses"
    /\ \E result \in {MakeSpotifyRequest(res.details[1].responses, 0, res.details[1].retryAfter)} :
          res' = [Response("request", result.outcome, "", 0, 0, 0, 0)
                     EXCEPT !.details = <<[responses |-> res.details[1].responses,
                                           retryAfter |-> res.details[1].retryAfter,
                                           attempts |-> result.attempts,
                                           waits |-> result.waits]>>]
    /\ UNCHANGED <<doc, sheet, now, procs, store>>

NextRequest == CallMakeSpotifyRequest

SpecRequest == InitRequest /\ [][NextRequest]_vars

(***************************************************************************)
(* End-to-end scenarios: one run of the pipeline over a longer fetch list, *)
(* from the zero-valued state or from the state an earlier run of one      *)
(* play left.  res.given keeps the list the run fetched.                   *)
(***************************************************************************)
MaxScenarioFetch == 5

ScenarioTrackIds == {1, 2, 3}

ScenarioEvents ==
    [id : ScenarioTrackIds, played_at : {k * TickMs : k \in 1..MaxScenarioFetch},
     duration_ms : {MIN_PLAY_DURATION_MS}]

\* the fetch list that holds one play at each tick of T, newest first, as
\* the recently-played endpoint returns them
ScenarioListOf(T, f) ==
    [i \in 1..Cardinality(T) |->
        LET k == CHOOSE k \in T : Cardinality({j \in T : j > k}) = i - 1
        IN [id |-> f[k], played_at |-> k * TickMs, duration_ms |-> MIN_PLAY_DURATION_MS]]

ScenarioLists ==
    UNION {{ScenarioListOf(T, f) : f \in [T -> ScenarioTrackIds]} :
              T \in SUBSET (1..MaxScenarioFetch)}

InitScenario ==
    /\ \E tracks \in {s \in ScenarioLists : Len(s) <= 1} :
          \E out \in {PipelineOutcome(DEFAULT_STATE, <<HeaderRow>>, tracks, {}, "", FALSE,
                                      FALSE, "log", 0)} :
              doc = out.doc /\ sheet = out.sheet
    /\ now = 0
    /\ res = Response("init", "", "", 0, 0, 0, 0)
    /\ procs = NoProcs
    /\ store = NoStore

\* one run of log-spotify or of the local logger in which no call other
\* than the enrichment calls throws
RunScenario ==
    /\ res.op = "init"
    /\ \E mode \in {"log", "local"}, tracks \in ScenarioLists :
        \E failSet \in SUBSET (1..Len(UniqueTracks(tracks))) :
          \E out \in {PipelineOutcome(doc, sheet, tracks, failSet, "", FALSE, FALSE, mode, now)} :
              /\ doc' = out.doc
              /\ sheet' = out.sheet
              /\ res' = [op |-> out.res.op, status |-> out.res.status,
                         thrown |-> out.res.thrown, filtered |-> out.res.filtered,
                         unique |-> out.res.unique, logged |-> out.res.logged,
                         failed |-> out.res.failed, details |-> out.res.details,
                         given |-> tracks]
    /\ UNCHANGED <<now, procs, store>>

NextScenario == RunScenario

SpecScenario == InitScenario /\ [][NextScenario]_vars

(***************************************************************************)
(* Alerting (lib/alerting.js).  In this specification doc is the persisted *)
(* document with its alerts field, sheet is the list of the alerts the     *)
(* channels have received, in order, and procs holds the position of each  *)
(* invocation inside sendAlert.                                            *)
(***************************************************************************)
ALERT_DEDUP_HOURS == 24

CLEANUP_DAYS == 7

HourMs == 1000 * 60 * 60

MaxAlertHours == 48

AlertTickHours == 12

MaxDeliveries == 3

AlertInvocations == {"a", "b"}

\* alertKey = `${level}:${title}`
AlertKeys ==
    {[level |-> "WARNING", title |-> "Consecutive Cron Failures"],
     [level |-> "CRITICAL", title |-> "Consecutive Cron Failures"]}

NoneSent == [k \in AlertKeys |-> <<>>]

AlertDoc(alerts) ==
    [lastProcessed |-> <<>>, failedQueue |-> <<>>,
     stats |-> [successCount |-> 0, failureCount |-> 0], alerts |-> alerts]

\* state.alerts || { sentAlerts: {}, ... }
GetAlertState(d) == IF d.alerts = <<>> THEN [sentAlerts |-> NoneSent] ELSE d.alerts[1]

\* hoursSince = (Date.now() - lastSent) / (1000 * 60 * 60) < ALERT_DEDUP_HOURS
IsAlertDuplicate(alertState, alertKey, clock) ==
    LET lastSent == alertState.sentAlerts[alertKey]
    IN  IF lastSent = <<>> THEN FALSE
        ELSE clock - lastSent[1] < ALERT_DEDUP_HOURS * HourMs

\* sentAlerts[alertKey] = now, then the keys older than 7 days are deleted
MarkAlertSent(alertState, alertKey, clock) ==
    LET marked == [alertState.sentAlerts EXCEPT ![alertKey] = <<clock>>]
        cutoff == clock - CLEANUP_DAYS * 24 * 60 * 60 * 1000
    IN  [sentAlerts |-> [k \in AlertKeys |->
            IF marked[k] # <<>> /\ marked[k][1] < cutoff THEN <<>> ELSE marked[k]]]

IdleAlert == [pc |-> "idle", key |-> <<>>, held |-> <<>>]

AlertResponse(sent, reason, key) ==
    [op |-> "sendAlert", status |-> reason, thrown |-> "", filtered |-> 0, unique |-> 0,
     logged |-> 0, failed |-> 0, details |-> <<[sent |-> sent, key |-> key]>>]

InitAlert ==
    /\ doc = AlertDoc(<<>>)
    /\ sheet = <<>>
    /\ now = 0
    /\ res = Response("init", "", "", 0, 0, 0, 0)
    /\ procs = [p \in AlertInvocations |-> IdleAlert]
    /\ store = NoStore

\* sendAlert up to the return of isAlertDuplicate
CheckAlert(p) ==
    /\ procs[p].pc = "idle"
    /\ \E enabled \in BOOLEAN, alertKey \in AlertKeys :
        IF ~enabled
        THEN /\ res' = AlertResponse(FALSE, "alerts_disabled", alertKey)
             /\ UNCHANGED procs
        ELSE IF IsAlertDuplicate(GetAlertState(doc), alertKey, now)
        THEN /\ res' = AlertResponse(FALSE, "deduplicated", alertKey)
             /\ UNCHANGED procs
        ELSE /\ procs' = [procs EXCEPT ![p] = [pc |-> "deliver", key |-> <<alertKey>>,
                                               held |-> <<>>]]
             /\ UNCHANGED res
    /\ UNCHANGED <<doc, sheet, now, store>>

\* sendConsoleAlert and the configured webhooks
DeliverAlert(p) ==
    /\ procs[p].pc = "deliver"
    /\ Len(sheet) < MaxDeliveries
    /\ sheet' = Append(sheet, [key |-> procs[p].key[1], at |-> now])
    /\ procs' = [procs EXCEPT ![p].pc = "mark"]
    /\ UNCHANGED <<doc, now, res, store>>

\* markAlertSent up to the call of saveAlertState
MarkAlert(p) ==
    /\ procs[p].pc = "mark"
    /\ procs' = [procs EXCEPT ![p].pc = "save",
                              ![p].held = <<MarkAlertSent(GetAlertState(doc), procs[p].key[1], now)>>]
    /\ UNCHANGED <<doc, sheet, now, res, store>>

\* saveAlertState: state.alerts = alertState; saveState(state); sendAlert returns
SaveAlert(p) ==
    /\ procs[p].pc = "save"
    /\ doc' = [doc EXCEPT !.alerts = procs[p].held]
    /\ res' = AlertResponse(TRUE, "", procs[p].key[1])
    /\ procs' = [procs EXCEPT ![p] = IdleAlert]
    /\ UNCHANGED <<sheet, now, store>>

AlertTick ==
    /\ now + AlertTickHours * HourMs <= MaxAlertHours * HourMs
    /\ now' = now + AlertTickHours * HourMs
    /\ UNCHANGED <<doc, sheet, res, procs, store>>

NextAlert ==
    \/ \E p \in AlertInvocations : CheckAlert(p)
    \/ \E p \in AlertInvocations : DeliverAlert(p)
    \/ \E p \in AlertInvocations : MarkAlert(p)
    \/ \E p \in AlertInvocations : SaveAlert(p)
    \/ AlertTick

SpecAlert == InitAlert /\ [][NextAlert]_vars

\* sendAlert calls that never overlap
CheckAlertAlone(p) ==
    /\ \A q \in AlertInvocations : procs[q].pc = "idle"
    /\ CheckAlert(p)

NextAlertSerial ==
    \/ \E p \in AlertInvocations : CheckAlertAlone(p)
    \/ \E p \in AlertInvocations : DeliverAlert(p)
    \/ \E p \in AlertInvocations : MarkAlert(p)
    \/ \E p \in AlertInvocations : SaveAlert(p)
    \/ AlertTick

SpecAlertSerial == InitAlert /\ [][NextAlertSerial]_vars

(***************************************************************************)
(* Historical import (api/import-history.js).  In this specification sheet *)
(* is the Historical Data tab, store says whether the tab exists and doc   *)
(* is the persisted document with its historicalImport field.              *)
(***************************************************************************)
IMPORT_MATCH_WINDOW_MS == 5 * 60 * 1000

MaxImportFetch == 2

MaxImportSteps == 3

MaxImportRows == 4

ImportStepMs == 150000

\* the recently played list, newest first, one play at each step of T
ImportListOf(T, f) ==
    [i \in 1..Cardinality(T) |->
        LET k == CHOOSE k \in T : Cardinality({j \in T : j > k}) = i - 1
        IN [id |-> f[k], played_at |-> k * ImportStepMs, duration_ms |-> MIN_PLAY_DURATION_MS]]

ImportLists ==
    UNION {{ImportListOf(T, f) : f \in [T -> TrackIds]} :
              T \in {S \in SUBSET (1..MaxImportSteps) : Cardinality(S) <= MaxImportFetch}}

ImportDoc(historicalImport) ==
    [lastProcessed |-> <<>>, failedQueue |-> <<>>,
     stats |-> [successCount |-> 0, failureCount |-> 0],
     historicalImport |-> historicalImport]

\* state.historicalImport || { completed: false, ..., totalImported: 0 }
GetImportState(d) ==
    IF d.historicalImport = <<>> THEN [completed |-> FALSE, totalImported |-> 0]
    ELSE d.historicalImport[1]

\* for (let i = 1; i < existingRows.length; i++): in 1-based indices the
\* rows 2..Len(existingRows)
IsAlreadyImported(trackId, playedAt, existingRows) ==
    \E i \in 2..Len(existingRows) :
        /\ existingRows[i].trackId = trackId
        /\ Abs(existingRows[i].timestamp - playedAt) < IMPORT_MATCH_WINDOW_MS

\* createSheetIfNotExists: an existing tab is left as it is; a new tab gets
\* the header row unless the append of the headers fails.  headerFault is
\* "" (no failure), "retried" (the failure makes makeSheetsRequest call the
\* closure again, which now finds the tab) or "thrown" (the failure reaches
\* the handler)
CreateSheetIfNotExists(exists, sh, headerFault) ==
    IF exists THEN [exists |-> TRUE, sheet |-> sh, thrown |-> FALSE]
    ELSE IF headerFault = "" THEN [exists |-> TRUE, sheet |-> <<HeaderRow>>, thrown |-> FALSE]
    ELSE [exists |-> TRUE, sheet |-> <<>>, thrown |-> headerFault = "thrown"]

RECURSIVE ImportRows(_, _, _, _)
\* the loop over the fetched items: duplicates are skipped, an item whose
\* processing throws is counted as failed, the others become rows
ImportRows(tracks, i, failSet, existingRows) ==
    IF i > Len(tracks) THEN <<>>
    ELSE IF IsAlreadyImported(tracks[i].id, tracks[i].played_at, existingRows) \/ i \in failSet
         THEN ImportRows(tracks, i + 1, failSet, existingRows)
         ELSE <<FormatTrackRow(tracks[i], "COMPLETED")>>
                 \o ImportRows(tracks, i + 1, failSet, existingRows)

ImportResponse(status, thrown, force, tracks, imported) ==
    [op |-> "import", status |-> status, thrown |-> thrown, filtered |-> 0, unique |-> 0,
     logged |-> imported, failed |-> 0, details |-> <<[force |-> force]>>, given |-> tracks]

ImportOutcome(d, exists, sh, force, tracks, headerFault, failSet, appendFault) ==
    LET importState == GetImportState(d)
        made == CreateSheetIfNotExists(exists, sh, headerFault)
        rowsToAppend == ImportRows(tracks, 1, failSet, made.sheet)
    IN  IF importState.completed /\ ~force
        THEN [doc |-> d, exists |-> exists, sheet |-> sh,
              res |-> ImportResponse("already completed", "", force, <<>>, 0)]
        ELSE IF made.thrown
        THEN [doc |-> d, exists |-> TRUE, sheet |-> made.sheet,
              res |-> ImportResponse("500", "createSheetIfNotExists", force, <<>>, 0)]
        ELSE IF tracks = <<>>
        THEN [doc |-> d, exists |-> TRUE, sheet |-> made.sheet,
              res |-> ImportResponse("200", "", force, tracks, 0)]
        ELSE IF rowsToAppend # <<>> /\ appendFault
        THEN [doc |-> d, exists |-> TRUE, sheet |-> made.sheet,
              res |-> ImportResponse("500", "appendRows", force, tracks, 0)]
        ELSE [doc |-> [d EXCEPT !.historicalImport =
                          <<[completed |-> TRUE,
                             totalImported |-> importState.totalImported + Len(rowsToAppend)]>>],
              exists |-> TRUE, sheet |-> made.sheet \o rowsToAppend,
              res |-> ImportResponse("200", "", force, tracks, Len(rowsToAppend))]

InitImport ==
    /\ doc = ImportDoc(<<>>)
    /\ sheet = <<>>
    /\ now = 0
    /\ res = Response("init", "", "", 0, 0, 0, 0)
    /\ procs = NoProcs
    /\ store = [exists |-> FALSE]

\* GET /api/import-history
RunImport ==
    \E force \in BOOLEAN, tracks \in ImportLists, appendFault \in BOOLEAN,
       headerFault \in IF store.exists THEN {""} ELSE {"", "retried", "thrown"} :
      \E failSet \in SUBSET (1..Len(tracks)) :
        \E out \in {ImportOutcome(doc, store.exists, sheet, force, tracks, headerFault,
                                  failSet, appendFault)} :
            /\ Len(out.sheet) <= MaxImportRows
            /\ doc' = out.doc
            /\ sheet' = out.sheet
            /\ store' = [exists |-> out.exists]
            /\ res' = out.res
            /\ UNCHANGED <<now, procs>>

NextImport == RunImport

SpecImport == InitImport /\ [][NextImport]_vars

(***************************************************************************)
(* The consecutive-failure counter of log-spotify.  In this specification  *)
(* store is the alerts field of the persisted document.                    *)
(***************************************************************************)
MaxStreak == 3

\* trackSuccessfulRun: consecutiveFailures = 0
TrackSuccessfulRun(alertState) == [alertState EXCEPT !.consecutiveFailures = 0]

\* trackFailedRun: consecutiveFailures++
TrackFailedRun(alertState) == [alertState EXCEPT !.consecutiveFailures = @ + 1]

\* what one invocation of the handler does to the alert state: the catch
\* block calls trackFailedRun, the end of the try block calls
\* trackSuccessfulRun, and the three early returns (no tracks, no new plays,
\* all already logged) call neither
TrackRun(alertState, r) ==
    IF r.status = "500" THEN TrackFailedRun(alertState)
    ELSE IF r.status = "200" /\ r.unique > 0 THEN TrackSuccessfulRun(alertState)
    ELSE alertState

InitStreak ==
    /\ doc = DEFAULT_STATE
    /\ sheet = <<HeaderRow>>
    /\ now = 0
    /\ res = Response("init", "", "", 0, 0, 0, 0)
    /\ procs = NoProcs
    /\ store = [consecutiveFailures |-> 0]

\* one invocation of log-spotify; a throwing fetch sends it to the catch block
RunTracked ==
    \E fault \in {"", "fetch"}, tracks \in FetchLists :
      /\ (fault = "fetch") => (tracks = <<>>)
      /\ \E failSet \in SUBSET (1..Len(UniqueTracks(tracks))) :
          \E out \in {PipelineOutcome(doc, sheet, tracks, failSet, fault, FALSE, FALSE, "log", now)} :
            /\ WithinBounds(out)
            /\ TrackRun(store, out.res).consecutiveFailures <= MaxStreak
            /\ doc' = out.doc
            /\ sheet' = out.sheet
            /\ res' = out.res
            /\ store' = TrackRun(store, out.res)
            /\ UNCHANGED <<now, procs>>

NextStreak == RunTracked

SpecStreak == InitStreak /\ [][NextStreak]_vars

(***************************************************************************)
(* The operations on the failed queue, one after the other: the exported   *)
(* addToFailedQueue and clearFromFailedQueue, and the retry pass.          *)
(***************************************************************************)
MaxOpsQueue == 2

MaxOpsCount == 1

\* two plays of one track and one play of another
OpsPlayed == {e \in Played : e.played_at <= 2 * TickMs}

\* the instants of the passes: at once, after the first delay, after the second
OpsClock == {0, RETRY_DELAY_FIRST_MS, RETRY_DELAY_FIRST_MS + RETRY_DELAY_SECOND_MS}

OpsWithin(state) ==
    /\ Len(state.failedQueue) <= MaxOpsQueue
    /\ \A i \in 1..Len(state.failedQueue) :
          state.failedQueue[i].attemptCount <= MAX_RETRY_ATTEMPTS
    /\ state.stats.successCount <= MaxOpsCount
    /\ state.stats.failureCount <= MaxOpsCount

\* addToFailedQueue(track, error)
OpAddToFailedQueue ==
    \E track \in OpsPlayed :
        \E state \in {AddToFailedQueue(doc, track, now)} :
            /\ OpsWithin(state)
            /\ doc' = state
            /\ res' = [Response("add", "", "", 0, 0, 0, 0) EXCEPT !.details = <<track>>]
            /\ UNCHANGED <<sheet, now, procs, store>>

\* clearFromFailedQueue(trackId, playedAt)
OpClearFromFailedQueue ==
    \E track \in OpsPlayed :
        /\ doc' = ClearFromFailedQueue(doc, track.id, track.played_at)
        /\ res' = [Response("clear", "", "", 0, 0, 0, 0) EXCEPT !.details = <<track>>]
        /\ UNCHANGED <<sheet, now, procs, store>>

\* one pass of retry-failed
OpRetryFailed ==
    \E cut \in 0..Len(doc.failedQueue), okSet \in SUBSET (1..Len(doc.failedQueue)) :
        \E out \in {RetryOutcome(doc, sheet, cut, okSet, "", FALSE, now)} :
            /\ OpsWithin(out.doc)
            /\ doc' = out.doc
            /\ sheet' = out.sheet
            /\ res' = out.res
            /\ UNCHANGED <<now, procs, store>>

OpsTick ==
    /\ \E t \in OpsClock : t > now /\ now' = t
    /\ res' = Response("tick", "", "", 0, 0, 0, 0)
    /\ UNCHANGED <<doc, sheet, procs, store>>

NextOps ==
    \/ OpAddToFailedQueue
    \/ OpClearFromFailedQueue
    \/ OpRetryFailed
    \/ OpsTick

SpecOps == Init /\ [][NextOps]_vars

(***************************************************************************)
(* Metrics of one day: startExecution, trackError, trackTracks and         *)
(* endExecution.  procs holds currentExecutionMetrics, store the metrics   *)
(* state with the daily metrics of today (absent until the first           *)
(* endExecution).                                                          *)
(***************************************************************************)
MaxExecutions == 2

MaxTracked == 1

MaxErrors == 2

\* the keys of dailyMetrics.errors
DailyErrorTypes == {"spotify", "sheets", "validation", "other"}

\* the types handed to trackError: two of the known ones and one that is not
TrackedErrorTypes == {"spotify", "other", "timeout"}

\* Math.round(x) of num / den, den > 0: the integer nearest to x, halves upwards
MathRound(num, den) == (2 * num + den) \div (2 * den)

RECURSIVE SumOver(_, _)
SumOver(f, S) ==
    IF S = {} THEN 0
    ELSE LET k == CHOOSE x \in S : TRUE IN f[k] + SumOver(f, S \ {k})

NoExecution == [started |-> FALSE, errors |-> <<>>, tracksProcessed |-> 0, tracksLogged |-> 0]

InitDailyMetrics ==
    [executions |-> 0, tracksLogged |-> 0, tracksProcessed |-> 0,
     errors |-> [t \in DailyErrorTypes |-> 0], successRate |-> 100]

GetMetricsState == [daily |-> <<>>, totals |-> [totalExecutions |-> 0, totalErrors |-> 0]]

RECURSIVE CountErrors(_, _, _)
\* the loop over currentExecutionMetrics.errors
CountErrors(errors, tracked, n) ==
    IF n = 0 THEN errors
    ELSE LET before == CountErrors(errors, tracked, n - 1)
             type   == tracked[n]
         IN  IF type \in DOMAIN before
             THEN [before EXCEPT ![type] = @ + 1]
             ELSE [before EXCEPT !["other"] = @ + 1]

SuccessRate(totalOps, failedOps) ==
    IF totalOps > 0 THEN MathRound((totalOps - failedOps) * 100, totalOps) ELSE 100

\* the daily metrics of today after endExecution of the execution cur
EndedDaily(metricsState, cur) ==
    LET dailyMetrics == IF metricsState.daily = <<>> THEN InitDailyMetrics
                        ELSE metricsState.daily[1]
        errors       == CountErrors(dailyMetrics.errors, cur.errors, Len(cur.errors))
        totalOps     == dailyMetrics.tracksProcessed + cur.tracksProcessed
        failedOps    == SumOver(errors, DailyErrorTypes)
    IN  [executions      |-> dailyMetrics.executions + 1,
         tracksLogged    |-> dailyMetrics.tracksLogged + cur.tracksLogged,
         tracksProcessed |-> totalOps,
         errors          |-> errors,
         successRate     |-> SuccessRate(totalOps, failedOps)]

MetricsResponse(op) == Response(op, "", "", 0, 0, 0, 0)

InitMetrics ==
    /\ doc = DEFAULT_STATE
    /\ sheet = <<HeaderRow>>
    /\ now = 0
    /\ res = MetricsResponse("init")
    /\ procs = NoExecution
    /\ store = GetMetricsState

StartExecution ==
    /\ procs' = [NoExecution EXCEPT !.started = TRUE]
    /\ res' = MetricsResponse("startExecution")
    /\ UNCHANGED <<doc, sheet, now, store>>

TrackError ==
    \E errorType \in TrackedErrorTypes :
        /\ Len(procs.errors) < MaxErrors
        /\ procs' = [procs EXCEPT !.errors = Append(@, errorType)]
        /\ res' = MetricsResponse("trackError")
        /\ UNCHANGED <<doc, sheet, now, store>>

TrackTracks ==
    \E processed \in 0..MaxTracked :
        \E logged \in 0..processed :
            /\ procs.tracksProcessed + processed <= MaxTracked
            /\ procs' = [procs EXCEPT !.tracksProcessed = @ + processed,
                                      !.tracksLogged = @ + logged]
            /\ res' = MetricsResponse("trackTracks")
            /\ UNCHANGED <<doc, sheet, now, store>>

EndExecution ==
    /\ IF ~procs.started
       THEN /\ res' = MetricsResponse("endExecution: null")
            /\ UNCHANGED <<procs, store>>
       ELSE /\ IF store.daily = <<>> THEN TRUE
               ELSE store.daily[1].executions < MaxExecutions
            /\ store' = [daily  |-> <<EndedDaily(store, procs)>>,
                         totals |-> [totalExecutions |-> store.totals.totalExecutions + 1,
                                     totalErrors |-> store.totals.totalErrors + Len(procs.errors)]]
            /\ procs' = NoExecution
            /\ res' = MetricsResponse("endExecution")
    /\ UNCHANGED <<doc, sheet, now>>

NextMetrics ==
    \/ StartExecution
    \/ TrackError
    \/ TrackTracks
    \/ EndExecution

SpecMetrics == InitMetrics /\ [][NextMetrics]_vars

(***************************************************************************)
(* MemoryStore sessions: createSession, updateSession and archiveSession.  *)
(* now counts the hours since midnight of the first day (the process runs  *)
(* in UTC, so getHours and toISOString read the same clock); store holds   *)
(* session/current.json and the files of session/archive by name; procs    *)
(* records, in order, the sessions that archiveSession wrote.              *)
(***************************************************************************)
MaxSessionHours == 30

SessionStepHours == 5

MaxArchived == 3

SessionNotes == {"a"}

\* createSessionId(date): the date and the part of the day
CreateSessionId(hours) ==
    LET dateStr   == hours \div 24
        hour      == hours % 24
        timeOfDay == IF hour < 12 THEN "morning"
                     ELSE IF hour < 17 THEN "afternoon" ELSE "evening"
    IN  <<dateStr, timeOfDay>>

NewSession(hours) ==
    [sessionId |-> CreateSessionId(hours), startedAt |-> hours, contextNotes |-> <<>>]

\* deepMerge(current, updates) for updates = { contextNotes: [note] }
DeepMerge(current, note) == [current EXCEPT !.contextNotes = <<note>>]

\* fs.writeFile(archiveFile, ...) in session/archive
WriteArchive(archive, current) ==
    [id \in DOMAIN archive \cup {current.sessionId} |->
        IF id = current.sessionId THEN current ELSE archive[id]]

SessionResponse(op, status) == Response(op, status, "", 0, 0, 0, 0)

InitSession ==
    /\ doc = DEFAULT_STATE
    /\ sheet = <<HeaderRow>>
    /\ now = 0
    /\ res = SessionResponse("init", "")
    /\ procs = [archived |-> <<>>]
    /\ store = [current |-> <<>>, archive |-> <<>>]

CreateSession ==
    /\ store' = [store EXCEPT !.current = <<NewSession(now)>>]
    /\ res' = SessionResponse("createSession", "")
    /\ UNCHANGED <<doc, sheet, now, procs>>

UpdateSession ==
    \E note \in SessionNotes :
        LET current == IF store.current = <<>> THEN NewSession(now) ELSE store.current[1]
        IN  /\ store' = [store EXCEPT !.current = <<DeepMerge(current, note)>>]
            /\ res' = SessionResponse("updateSession", "")
            /\ UNCHANGED <<doc, sheet, now, procs>>

ArchiveSession ==
    /\ IF store.current = <<>>
       THEN /\ res' = SessionResponse("archiveSession", "none")
            /\ UNCHANGED <<store, procs>>
       ELSE /\ Len(procs.archived) < MaxArchived
            /\ store' = [current |-> <<>>,
                         archive |-> WriteArchive(store.archive, store.current[1])]
            /\ procs' = [archived |-> Append(procs.archived, store.current[1])]
            /\ res' = SessionResponse("archiveSession", "archived")
    /\ UNCHANGED <<doc, sheet, now>>

SessionTick ==
    /\ now + SessionStepHours <= MaxSessionHours
    /\ now' = now + SessionStepHours
    /\ res' = SessionResponse("tick", "")
    /\ UNCHANGED <<doc, sheet, procs, store>>

NextSession ==
    \/ CreateSession
    \/ UpdateSession
    \/ ArchiveSession
    \/ SessionTick

SpecSession == InitSession /\ [][NextSession]_vars

(***************************************************************************)
(* Properties                                                              *)
(***************************************************************************)
IsRun(r) == r.op \in {"log", "local"}

Succeeded(r) == r.status \in {"200", "exit0"}

IsPass(r) == r.op = "retry"

InQueue(queue, entry) == FindIndex(queue, entry.trackId, entry.playedAt) > 0

C2_AttemptCountAtMostMax ==
    \A i \in 1..Len(doc.failedQueue) :
        doc.failedQueue[i].attemptCount <= MAX_RETRY_ATTEMPTS

\* C3 as stated: every entry whose attemptCount has reached the maximum is
\* absent from failedQueue once the next retry pass has completed, wherever
\* it sits in the queue.
C3_MaxedOutAlwaysEvicted ==
    [][IsPass(res') /\ res'.status = "200"
        => \A i \in 1..Len(doc.failedQueue) :
              doc.failedQueue[i].attemptCount >= MAX_RETRY_ATTEMPTS
                  => ~InQueue(doc'.failedQueue, doc.failedQueue[i])]_vars

\* C3: every entry whose attemptCount has reached the maximum and that the
\* pass evaluates (it is among the first MAX_ENTRIES_PER_RUN entries and the
\* loop reaches it before the deadline check stops it) is absent from
\* failedQueue once that pass has completed.
C3_EvaluatedMaxedOutEvicted ==
    [][IsPass(res') /\ res'.status = "200"
        => \A i \in 1..Len(res'.details) :
              doc.failedQueue[i].attemptCount >= MAX_RETRY_ATTEMPTS
                  => ~InQueue(doc'.failedQueue, doc.failedQueue[i])]_vars

\* a completed pass has met an entry at the maximum and the entry is gone
C3_Witness ==
    /\ IsPass(res) /\ res.status = "200"
    /\ \E i \in 1..Len(res.details) :
          /\ res.details[i].outcome = "maxedOut"
          /\ res.details[i].attemptCount = MAX_RETRY_ATTEMPTS
          /\ ~InQueue(doc.failedQueue, res.details[i])

\* C4: in a completed pass, an entry below the maximum whose retry succeeds
\* is absent from failedQueue afterwards, and one whose retry fails is
\* present with its attemptCount raised by exactly one.
C4_RetryOutcomeUpdatesEntry ==
    [][IsPass(res') /\ res'.status = "200"
        => \A i \in 1..Len(res'.details) :
              LET entry == doc.failedQueue[i]
                  index == FindIndex(doc'.failedQueue, entry.trackId, entry.playedAt)
              IN  /\ res'.details[i].outcome = "succeeded" => index = 0
                  /\ res'.details[i].outcome = "failed"
                        => /\ entry.attemptCount < MAX_RETRY_ATTEMPTS
                           /\ index > 0
                           /\ doc'.failedQueue[index].attemptCount = entry.attemptCount + 1]_vars

\* one pass has retried two entries: one succeeded and is gone, the other
\* failed and carries the next attempt count
C4_Witness ==
    /\ IsPass(res) /\ res.status = "200"
    /\ \E i, j \in 1..Len(res.details) :
          /\ res.details[i].outcome = "succeeded"
          /\ ~InQueue(doc.failedQueue, res.details[i])
          /\ res.details[j].outcome = "failed"
          /\ InQueue(doc.failedQueue, res.details[j])
          /\ doc.failedQueue[FindIndex(doc.failedQueue, res.details[j].trackId,
                                       res.details[j].playedAt)].attemptCount
                = res.details[j].attemptCount + 1

\* the rows a run added to the sheet
NewRows == (Len(sheet) + 1)..Len(sheet')

NearRow(row, other) ==
    /\ row.trackId = other.trackId
    /\ Abs(row.timestamp - other.timestamp) < MIN_PLAY_DURATION_MS

ErrorRows == {i \in NewRows : sheet'[i].status = "ERROR"}

\* C6: a run in which n plays survive filtering and deduplication and the
\* enrichment of k of them throws completes successfully, appends exactly n
\* rows of which exactly k have status ERROR, and leaves the failed queue
\* with exactly k new entries after the ones it held.
C6_PartialEnrichmentFailure ==
    [][IsRun(res') /\ res'.unique > 0
        => /\ Succeeded(res')
           /\ Len(sheet') = Len(sheet) + res'.unique
           /\ SubSeq(sheet', 1, Len(sheet)) = sheet
           /\ Cardinality(ErrorRows) = res'.failed
           /\ Len(doc'.failedQueue) = Len(doc.failedQueue) + res'.failed
           /\ SubSeq(doc'.failedQueue, 1, Len(doc.failedQueue)) = doc.failedQueue
           /\ \A i \in ErrorRows :
                 \E q \in (Len(doc.failedQueue) + 1)..Len(doc'.failedQueue) :
                     /\ doc'.failedQueue[q].trackId = sheet'[i].trackId
                     /\ doc'.failedQueue[q].playedAt = sheet'[i].timestamp
                     /\ doc'.failedQueue[q].attemptCount = 1]_vars

\* a run logged two plays, the enrichment of one threw: one ERROR row, one
\* COMPLETED row, one queue entry
C6_Witness ==
    /\ res.op = "log" /\ res.status = "200"
    /\ res.unique = 2 /\ res.failed = 1 /\ res.logged = 1
    /\ Len(sheet) = 3
    /\ Cardinality({i \in 2..3 : sheet[i].status = "ERROR"}) = 1
    /\ Len(doc.failedQueue) = 1

Retained(track) == \E j \in 1..Len(res'.details) : res'.details[j] = track

\* C8 as stated: filterNewPlays retains every item of positive duration
\* whose track ID is lastProcessed.trackId and whose timestamp is at least
\* MIN_PLAY_DURATION_MS away from lastProcessed.playedAt, earlier or later.
C8_RepeatPlayRetainedEitherSide ==
    [][res'.op = "filter" /\ doc.lastProcessed # <<>>
        => \A i \in 1..Len(res.details) :
              (/\ res.details[i].duration_ms > 0
               /\ res.details[i].id = doc.lastProcessed[1].trackId
               /\ Abs(res.details[i].played_at - doc.lastProcessed[1].playedAt)
                     >= MIN_PLAY_DURATION_MS)
                  => Retained(res.details[i])]_vars

\* C8: filterNewPlays retains every item of positive duration whose track ID
\* is lastProcessed.trackId and whose timestamp is at least
\* MIN_PLAY_DURATION_MS later than lastProcessed.playedAt; an item whose
\* timestamp is not later than lastProcessed.playedAt is dropped.
C8_RepeatPlayRetainedWhenLater ==
    [][res'.op = "filter" /\ doc.lastProcessed # <<>>
        => \A i \in 1..Len(res.details) :
              /\ (/\ res.details[i].duration_ms > 0
                  /\ res.details[i].id = doc.lastProcessed[1].trackId
                  /\ res.details[i].played_at - doc.lastProcessed[1].playedAt
                        >= MIN_PLAY_DURATION_MS)
                     => Retained(res.details[i])
              /\ res.details[i].played_at <= doc.lastProcessed[1].playedAt
                     => ~Retained(res.details[i])]_vars

\* the filter returned a short repeat play of the last processed track that
\* started MIN_PLAY_DURATION_MS after it
C8_Witness ==
    /\ res.op = "filter" /\ doc.lastProcessed # <<>>
    /\ \E j \in 1..Len(res.details) :
          /\ res.details[j].id = doc.lastProcessed[1].trackId
          /\ res.details[j].duration_ms \in 1..(MIN_PLAY_DURATION_MS - 1)
          /\ res.details[j].played_at = doc.lastProcessed[1].playedAt + MIN_PLAY_DURATION_MS

\* C9: when a run starts from the default document while the sheet holds
\* logged rows, then after the run has completed the persisted lastProcessed
\* is non-null and at least as recent as the marker of the sheet's last row.
\* Stated for the runs that got as far as the reconciliation step (some play
\* passed the filter).
C9_LastProcessedRederived ==
    [][(/\ IsRun(res') /\ Succeeded(res') /\ res'.filtered > 0
        /\ doc = DEFAULT_STATE
        /\ FindLastProcessedInSheet(sheet) # <<>>)
        => /\ doc'.lastProcessed # <<>>
           /\ doc'.lastProcessed[1].playedAt
                 >= FindLastProcessedInSheet(sheet)[1].playedAt]_vars

\* C10: every invocation of the log-spotify handler ends with one response,
\* status 200 or status 500, whichever step failed.
C10_AlwaysResponds == res.op = "log" => res.status \in {"200", "500"}

\* the invocation whose saveState lands in this step
Saving(p) == procs[p].held # <<>> /\ procs'[p].held = <<>>

\* C11: when a log-spotify invocation and a retry-failed invocation interleave
\* their load and save steps, no update is lost: every save writes its
\* operation applied to the document as it is persisted at that moment, so
\* that whatever the other invocation saved since the load is still there.
C11_NoLostUpdate ==
    [][\A p \in {"a", "r"} :
          Saving(p) => doc' = IF SavesAfter(Head(procs[p].ops), doc)
                              THEN ApplyOp(Head(procs[p].ops), doc, now)
                              ELSE doc]_vars

\* the data rows of the sheet that record the same play (same track, same timestamp)
SamePlayRows(i, j) ==
    /\ sheet[i].trackId = sheet[j].trackId
    /\ sheet[i].timestamp = sheet[j].timestamp

\* C12: with two log-spotify invocations running at the same time, no play
\* is appended to the Listening Log twice: no two data rows record the same
\* track at the same timestamp.
C12_NoPlayLoggedTwice ==
    \A i, j \in 2..Len(sheet) : SamePlayRows(i, j) => i = j

\* row j of the sheet is the ERROR placeholder written for the play of entry
IsPlaceholderOf(row, entry) ==
    /\ row.trackId = entry.trackId
    /\ row.timestamp = entry.playedAt
    /\ row.status = "ERROR"

\* C13: when a retry succeeds and its entry leaves the queue, the ERROR
\* placeholder row written for that play has been overwritten in place with
\* the completed row of that play (same row, status COMPLETED).
C13_PlaceholderOverwritten ==
    [][(IsPass(res') /\ res'.status = "200")
         => \A i \in 1..Len(res'.details) :
              (res'.details[i].outcome = "succeeded" /\ ~InQueue(doc'.failedQueue, res'.details[i]))
                 => \A j \in 2..Len(sheet) :
                       IsPlaceholderOf(sheet[j], res'.details[i])
                          => sheet'[j] = FormatTrackRow([id |-> res'.details[i].trackId,
                                                          played_at |-> res'.details[i].playedAt],
                                                         "COMPLETED")]_vars

\* C14: reconcileState is idempotent: applied to its own result with the same
\* sheet rows, it returns that result unchanged.
C14_ReconcileIdempotent ==
    [][(res.op = "reconcile" /\ res'.op = "reconcile") => doc' = doc]_vars

\* the first call replaced the local marker, and the second call has run
C14_Witness ==
    /\ res.op = "reconcile"
    /\ res.filtered = 2
    /\ res.details[1].lastProcessed # <<>>
    /\ res.details[1] # doc

\* the marker of the sheet's final data row; null without data rows or when
\* the row lacks its track ID or its timestamp
FinalRowMarker ==
    IF Len(sheet) > 1 /\ sheet[Len(sheet)].trackId # 0 /\ sheet[Len(sheet)].timestamp # 0
    THEN <<[trackId |-> sheet[Len(sheet)].trackId, playedAt |-> sheet[Len(sheet)].timestamp]>>
    ELSE <<>>

SheetIsNewer ==
    /\ FinalRowMarker # <<>>
    /\ doc.lastProcessed # <<>> => FinalRowMarker[1].playedAt > doc.lastProcessed[1].playedAt

\* C15: reconcileState returns a state whose lastProcessed is the newer of
\* the two markers: the marker of the sheet's final row when its timestamp is
\* strictly later than the local marker's or there is no local marker, and
\* the unchanged local lastProcessed otherwise.
C15_ReconcileTakesNewer ==
    [][res'.op = "reconcile"
         => doc'.lastProcessed = IF SheetIsNewer THEN FinalRowMarker ELSE doc.lastProcessed]_vars

\* a call with the sheet strictly ahead of a present local marker, which
\* took the sheet's marker
C15_Witness ==
    /\ res.op = "reconcile"
    /\ res.filtered = 1
    /\ res.details[1].lastProcessed # <<>>
    /\ FinalRowMarker # <<>>
    /\ FinalRowMarker[1].playedAt > res.details[1].lastProcessed[1].playedAt
    /\ doc.lastProcessed = FinalRowMarker

\* a call with the local marker strictly ahead of the sheet, which kept it
C15_WitnessLocalKept ==
    /\ res.op = "reconcile"
    /\ res.filtered = 1
    /\ FinalRowMarker # <<>>
    /\ res.details[1].lastProcessed # <<>>
    /\ FinalRowMarker[1].playedAt < res.details[1].lastProcessed[1].playedAt
    /\ doc.lastProcessed = res.details[1].lastProcessed

\* the entry at position i of the queue was retried by the pass of this step
Retried(i) ==
    /\ i <= Len(res'.details)
    /\ res'.details[i].outcome \in {"succeeded", "failed"}

\* C16: a retry pass never retries an entry with attemptCount 1 sooner than
\* 1 hour (3 600 000 ms) after its lastAttempt, nor an entry with
\* attemptCount 2 sooner than 24 hours (86 400 000 ms) after its lastAttempt.
C16_BackoffRespected ==
    [][IsPass(res')
         => \A i \in 1..Len(doc.failedQueue) :
               Retried(i) =>
                  /\ doc.failedQueue[i].attemptCount = 1
                        => now - doc.failedQueue[i].lastAttempt >= 3600000
                  /\ doc.failedQueue[i].attemptCount = 2
                        => now - doc.failedQueue[i].lastAttempt >= 86400000]_vars

\* a pass has retried an entry that stood at attemptCount 2, and an entry at
\* attemptCount 1 whose delay has not passed is waiting in the queue
C16_Witness ==
    /\ IsPass(res)
    /\ \E i \in 1..Len(res.details) :
          /\ res.details[i].attemptCount = 2
          /\ res.details[i].outcome \in {"succeeded", "failed"}
    /\ \E i \in 1..Len(res.details) :
          /\ res.details[i].attemptCount = 1
          /\ res.details[i].outcome = "skipped"

\* C17: in one retry pass at most 50 queue entries are evaluated, and no
\* entry is started once more than 45 000 ms have elapsed since the pass
\* began.
C17_PassLimits ==
    [][IsPass(res')
         => /\ Len(res'.details) <= 50
            /\ \A i \in 1..Len(res'.details) : res'.elapsed[i] <= 45000]_vars

\* a pass over a queue of more than 50 entries that evaluated exactly 50
C17_Witness ==
    /\ IsPass(res)
    /\ Len(res.details) = 50
    /\ Len(doc.failedQueue) + res.logged + Len(WithOutcome(res.details, "maxedOut")) > 50

\* a pass that the timeout stopped before the end of its queue, after an
\* entry that started at exactly 45 000 ms
C17_WitnessTimeout ==
    /\ IsPass(res)
    /\ Len(res.details) > 0
    /\ res.elapsed[Len(res.details)] = 45000
    /\ Len(res.details) < 50
    /\ Len(doc.failedQueue) + res.logged + Len(WithOutcome(res.details, "maxedOut"))
          > Len(res.details)

\* nothing is persisted: no KV key, or neither the state file nor its backup
NoDocument ==
    IF store.backend = "kv" THEN store.kv.kind = "absent"
    ELSE store.primary.kind = "absent" /\ store.backup.kind = "absent"

\* C18: whenever no persisted document exists, load returns the zero-valued
\* document (lastProcessed null, empty failedQueue, counters 0), whatever
\* state operations ran earlier in the same process.
C18_LoadWithoutDocumentIsZero ==
    [][(res'.op = "load" /\ NoDocument) => res'.details[1] = DEFAULT_STATE]_vars

\* the state file is there, and the load of this step could not read or parse it
PrimaryUnreadable ==
    /\ store.backend = "local"
    /\ \/ store.primary.kind = "corrupt"
       \/ store.primary.kind = "json" /\ res'.thrown \in {"read", "both"}

\* the backup file is there, and the load of this step read and parsed it
BackupParses == store.backup.kind = "json" /\ res'.thrown \notin {"backup", "both"}

\* C19: when the state file exists but cannot be read or parsed, load
\* returns the content of the backup copy if that copy parses and the
\* default (zero-valued) document otherwise, and it does not throw.
C19_LoadFallsBack ==
    [][(res'.op = "load" /\ PrimaryUnreadable)
         => /\ res'.status = "ok"
            /\ res'.details[1] = IF BackupParses THEN store.backup.state ELSE DEFAULT_STATE]_vars

\* the order of the fallbacks alone: the backup if it parses, otherwise the
\* shallow copy of DEFAULT_STATE as the process holds it; no throw
C19_FallbackOrder ==
    [][(res'.op = "load" /\ PrimaryUnreadable)
         => /\ res'.status = "ok"
            /\ res'.details[1] = IF BackupParses THEN store.backup.state ELSE store.defaults]_vars

\* a save of this step returned without throwing
SaveSucceeded == res'.op \in {"updateLastProcessed", "addToFailedQueue", "updateStats",
                              "clearAllState"} /\ res'.status = "ok"

\* the document the save of this step overwrote, as a file content
Overwritten == IF store.backend = "kv" THEN store.kv ELSE store.primary

\* C20: after every successful save that overwrites an existing persisted
\* document, a backup copy exists whose content is the document as it was
\* just before the save.
C20_BackupBeforeOverwrite ==
    [][(SaveSucceeded /\ Overwritten.kind # "absent") => store'.backup = Overwritten]_vars

\* C20 on the file backend only
C20_BackupBeforeOverwriteLocal ==
    [][(SaveSucceeded /\ store.backend = "local" /\ Overwritten.kind # "absent")
          => store'.backup = Overwritten]_vars

\* what a load without read faults returns from the given storage
Observed(st) == LoadState(st, FALSE, FALSE).state

\* a step that called saveState
SaveAttempted == res'.op \in {"updateLastProcessed", "addToFailedQueue", "updateStats",
                              "clearAllState"}

\* C21: the state is never partially persisted: after any save, also one
\* that failed partway, a load observes either the complete document that a
\* load observed before the save or the complete document handed to the save.
C21_SaveIsAllOrNothing ==
    [][SaveAttempted => Observed(store') \in {Observed(store), res'.details[1]}]_vars

\* C21 for saves that returned without throwing
C21_SuccessfulSaveIsObserved ==
    [][(SaveAttempted /\ res'.status = "ok") => Observed(store') = res'.details[1]]_vars

\* C21 on the KV backend
C21_SaveIsAllOrNothingKV ==
    [][(SaveAttempted /\ store.backend = "kv")
          => Observed(store') \in {Observed(store), res'.details[1]}]_vars

\* C22: a single streaming-API request makes at most 3 HTTP attempts before
\* it returns or throws, whatever sequence of 429 and 5xx answers it gets.
C22_AtMostThreeAttempts ==
    res.op = "request" => res.details[1].attempts <= 3

\* C22 as the code has it: the first attempt and at most MAX_RETRIES = 3
\* retries, 4 HTTP attempts in all.
C22_AtMostFourAttempts ==
    res.op = "request" => res.details[1].attempts <= 4

\* a request answered 429, 503, 429, 503 that threw after its fourth attempt
C22_Witness ==
    /\ res.op = "request"
    /\ res.status = "threw"
    /\ res.details[1].attempts = 4
    /\ SubSeq(res.details[1].responses, 1, 4) = <<"429", "503", "429", "503">>

\* the event of the list that no other event of the list is later than
IsLatestOf(e, tracks) ==
    /\ \E i \in 1..Len(tracks) : tracks[i] = e
    /\ \A i \in 1..Len(tracks) : tracks[i].played_at <= e.played_at

DistinctTrackIds(tracks) ==
    \A i, j \in 1..Len(tracks) : tracks[i].id = tracks[j].id => i = j

\* C23: from the zero-valued state and an empty Listening Log, a run that
\* fetches 3 events with distinct trackIds, each at least 30 s long, appends
\* exactly 3 rows and leaves lastProcessed at the latest of the three.
C23_ScenarioThreeNewPlays ==
    [][(/\ IsRun(res')
        /\ doc = DEFAULT_STATE /\ sheet = <<HeaderRow>>
        /\ Len(res'.given) = 3 /\ DistinctTrackIds(res'.given)
        /\ \A i \in 1..3 : res'.given[i].duration_ms >= 30000)
          => /\ Len(sheet') = Len(sheet) + 3
             /\ SubSeq(sheet', 1, Len(sheet)) = sheet
             /\ \E e \in ScenarioEvents :
                   /\ IsLatestOf(e, res'.given)
                   /\ doc'.lastProcessed = <<[trackId |-> e.id, playedAt |-> e.played_at]>>]_vars

\* such a run has happened, with the latest event not the last of the sheet's
\* rows to fail its enrichment
C23_Witness ==
    /\ IsRun(res) /\ Succeeded(res)
    /\ Len(res.given) = 3 /\ DistinctTrackIds(res.given)
    /\ res.unique = 3
    /\ Len(sheet) = 4
    /\ doc.stats.successCount + doc.stats.failureCount = 3

C25_NonPositiveDurationExcluded ==
    [][res'.op = "filter"
        => /\ \A i \in 1..Len(res.details) :
                 res.details[i].duration_ms <= 0 => ~Retained(res.details[i])
           /\ \A j \in 1..Len(res'.details) : res'.details[j].duration_ms > 0]_vars

\* the filter was given an item without a track object or of negative
\* duration next to an item it kept
C25_Witness ==
    /\ res.op = "filter"
    /\ \E i \in 1..Len(res.given) :
          res.given[i] \in MissingTrack \/ res.given[i].duration_ms < 0
    /\ Len(res.details) = 1
    /\ Len(res.given) = 2

\* C26: between two deliveries of the same alert (same level and title) at
\* least 24 hours elapse.
C26_AlertOncePerWindow ==
    \A i, j \in 1..Len(sheet) :
        (i < j /\ sheet[i].key = sheet[j].key)
            => sheet[j].at - sheet[i].at >= 24 * 3600000

\* the same alert was delivered twice, by calls that did not overlap
C26_SerialWitness ==
    /\ Len(sheet) >= 2
    /\ sheet[1].key = sheet[2].key
    /\ \A p \in AlertInvocations : procs[p].pc = "idle"

\* a row of the sheet for the same play as row r
HoldsPlayOf(sh, r) ==
    \E i \in 1..Len(sh) : sh[i].trackId = r.trackId /\ sh[i].timestamp = r.timestamp

\* C27: no run of the historical import, with or without force=true,
\* appends a row for a play that the Historical Data sheet already contains.
C27_ImportIdempotent ==
    [][res'.op = "import"
        => \A k \in (Len(sheet) + 1)..Len(sheet') : ~HoldsPlayOf(sheet, sheet'[k])]_vars

\* the same, for the runs that find the sheet with its header row
C27_ImportIdempotentUnderHeader ==
    [][(res'.op = "import" /\ sheet # <<>> /\ sheet[1] = HeaderRow)
        => \A k \in (Len(sheet) + 1)..Len(sheet') : ~HoldsPlayOf(sheet, sheet'[k])]_vars

\* a forced re-run over a sheet with its header skipped a play the sheet
\* held and appended another
C27_HeaderWitness ==
    /\ res.op = "import" /\ res.status = "200" /\ res.details[1].force
    /\ sheet # <<>> /\ sheet[1] = HeaderRow
    /\ res.logged = 1 /\ Len(res.given) = 2 /\ Len(sheet) = 3
    /\ HoldsPlayOf(SubSeq(sheet, 1, 2), FormatTrackRow(res.given[2], "COMPLETED"))

\* C28: a local run started with --dry-run appends nothing to the
\* spreadsheet and leaves the persisted lastProcessed, failedQueue and stats
\* unchanged, whatever events are fetched and whichever enrichments fail.
C28_DryRunWritesNothing ==
    [][res'.op = "dry"
        => /\ sheet' = sheet
           /\ doc'.lastProcessed = doc.lastProcessed
           /\ doc'.failedQueue = doc.failedQueue
           /\ doc'.stats = doc.stats]_vars

\* a dry run that had a new play to log and a failed enrichment
C28_Witness ==
    /\ res.op = "dry" /\ res.status = "exit0"
    /\ res.unique > 0 /\ res.logged > 0 /\ res.failed > 0

\* C29: a retry pass makes no retry attempt for an entry whose attemptCount
\* is 3 or more.
C29_NoRetryAtMaxAttempts ==
    [][IsPass(res')
         => \A i \in 1..Len(doc.failedQueue) :
               doc.failedQueue[i].attemptCount >= 3 => ~Retried(i)]_vars

\* a pass met an entry at attemptCount 3, which it did not retry, and retried
\* another entry
C29_Witness ==
    /\ IsPass(res)
    /\ \E i \in 1..Len(res.details) :
          /\ res.details[i].attemptCount >= 3
          /\ res.details[i].outcome = "maxedOut"
    /\ \E i \in 1..Len(res.details) :
          /\ res.details[i].attemptCount < 3
          /\ res.details[i].outcome \in {"succeeded", "failed"}

\* an entry the pass met at the maximum of attempts and took out of the queue
RemovedAsMaxedOut(i) ==
    /\ res'.details[i].outcome = "maxedOut"
    /\ InQueue(doc.failedQueue, res'.details[i])
    /\ ~InQueue(doc'.failedQueue, res'.details[i])

\* C30: whenever a retry pass removes an entry from the queue because it
\* reached the maximum of 3 attempts, an alert is sent for that entry.
C30_MaxedOutRemovalAlerts ==
    [][IsPass(res')
         => \A i \in 1..Len(res'.details) :
               RemovedAsMaxedOut(i)
                  => \E a \in 1..Len(res'.alerts) :
                        res'.alerts[a].trackId = res'.details[i].trackId]_vars

\* C31: consecutiveFailures counts the failed log-spotify invocations since
\* the last successful one: a failed invocation adds 1 and every successful
\* invocation (HTTP 200), one that finds no tracks or no new plays included,
\* resets it to 0.
C31_StreakCountsFailures ==
    [][res'.op = "log"
        => /\ res'.status = "500" => store'.consecutiveFailures = store.consecutiveFailures + 1
           /\ res'.status = "200" => store'.consecutiveFailures = 0]_vars

\* the same, for the successful invocations that had a play to log
C31_StreakResetByLoggingRun ==
    [][res'.op = "log"
        => /\ res'.status = "500" => store'.consecutiveFailures = store.consecutiveFailures + 1
           /\ (res'.status = "200" /\ res'.unique > 0) => store'.consecutiveFailures = 0]_vars

\* the queue holds an entry for the play of this row
RowInQueue(queue, row) == FindIndex(queue, row.trackId, row.timestamp) > 0

\* an ERROR row whose play has no entry in the queue
Orphaned(sh, queue, j) ==
    /\ j \in 2..Len(sh)
    /\ sh[j].status = "ERROR"
    /\ ~RowInQueue(queue, sh[j])

\* the pass took the entry of this row out of the queue at the maximum of attempts
EvictedByPass(row) ==
    /\ IsPass(res')
    /\ \E i \in 1..Len(res'.details) :
          /\ res'.details[i].outcome = "maxedOut"
          /\ res'.details[i].trackId = row.trackId
          /\ res'.details[i].playedAt = row.timestamp

\* C32: after a completed pipeline run or retry pass, every ERROR row of the
\* Listening Log belongs to a play that is still in the retry queue or was
\* evicted at the maximum of attempts: a run or pass leaves no ERROR row
\* without a queue entry other than the rows of the entries it evicted and
\* the rows that were in that condition before it.
C32_ErrorRowsAccountedFor ==
    [][((IsRun(res') \/ IsPass(res')) /\ Succeeded(res'))
         => \A j \in 2..Len(sheet') :
               Orphaned(sheet', doc'.failedQueue, j)
                  => \/ EvictedByPass(sheet'[j])
                     \/ Orphaned(sheet, doc.failedQueue, j)]_vars

\* two rows of the same track less than 30 000 ms apart
NearRows(r1, r2) == r1.trackId = r2.trackId /\ Abs(r1.timestamp - r2.timestamp) < 30000

\* C33: the rows appended by one run never include two rows of the same
\* track ID whose timestamps are less than 30 000 ms apart.
C33_NoNearRowsInOneRun ==
    [][IsRun(res')
        => \A j, k \in (Len(sheet) + 1)..Len(sheet') :
              j < k => ~NearRows(sheet'[j], sheet'[k])]_vars

\* the rows appended by one run are never within 30 000 ms of a row of the
\* same track that the sheet held before the run
C33_NoRowNearExistingRow ==
    [][IsRun(res')
        => \A k \in (Len(sheet) + 1)..Len(sheet') :
              \A j \in 2..Len(sheet) : ~NearRows(sheet[j], sheet'[k])]_vars

\* C34: a retry pass changes only rows that belong to the play of an entry
\* it retried successfully; the row of a different play is never overwritten.
C34_RetryWritesOwnRowOnly ==
    [][IsPass(res')
         => \A j \in 2..Len(sheet) :
               sheet'[j] # sheet[j]
                  => \E i \in 1..Len(res'.details) :
                        /\ res'.details[i].outcome = "succeeded"
                        /\ IsPlaceholderOf(sheet[j], res'.details[i])
                        /\ sheet'[j].trackId = sheet[j].trackId
                        /\ sheet'[j].timestamp = sheet[j].timestamp]_vars

\* position i of the queue was not retried and not evicted by the pass: the
\* loop did not reach it (beyond the first 50, or after the deadline) or
\* skipped it because its backoff had not elapsed
LeftAlone(i) ==
    \/ i > Len(res'.details)
    \/ res'.details[i].outcome = "skipped"

\* C35: a retry pass leaves every entry it neither retried nor evicted in
\* the queue, with attemptCount and lastAttempt unchanged.
C35_UntouchedEntriesKept ==
    [][IsPass(res')
         => \A i \in 1..Len(doc.failedQueue) :
               LeftAlone(i)
                  => \E k \in 1..Len(doc'.failedQueue) :
                        doc'.failedQueue[k] = doc.failedQueue[i]]_vars

\* a pass stopped by the deadline that had skipped an entry and retried
\* another with success
C35_Witness ==
    /\ IsPass(res) /\ res.status = "200"
    /\ Len(res.details) \in 2..49
    /\ Len(doc.failedQueue) > 0
    /\ \E i \in 1..Len(res.details) : res.details[i].outcome = "skipped"
    /\ \E i \in 1..Len(res.details) : res.details[i].outcome = "succeeded"

\* a pass that evaluated 50 entries of a longer queue and left the rest
C35_WitnessBeyondFifty ==
    /\ IsPass(res) /\ res.status = "200"
    /\ Len(res.details) = 50
    /\ \E k \in 1..Len(doc.failedQueue) : doc.failedQueue[k] = BatchEntry(51)

\* no two entries of the queue have the same trackId and the same playedAt
NoDuplicateEntries(queue) ==
    \A i, j \in 1..Len(queue) :
        SameEntry(queue[i], queue[j].trackId, queue[j].playedAt) => i = j

\* C36: the failedQueue never holds two entries with the same trackId and
\* the same playedAt, in the document the handlers work on and in every
\* stored copy of it (state file, backup, KV key, in-memory default).
C36_NoDuplicateQueueEntries ==
    /\ NoDuplicateEntries(doc.failedQueue)
    /\ NoDuplicateEntries(store.primary.state.failedQueue)
    /\ NoDuplicateEntries(store.backup.state.failedQueue)
    /\ NoDuplicateEntries(store.kv.state.failedQueue)
    /\ NoDuplicateEntries(store.defaults.failedQueue)

\* addToFailedQueue was called for a play that was in the queue already,
\* next to the entry of another play
C36_Witness ==
    /\ res.op = "add"
    /\ Len(doc.failedQueue) = 2
    /\ \E k \in 1..2 :
          /\ SameEntry(doc.failedQueue[k], res.details[1].id, res.details[1].played_at)
          /\ doc.failedQueue[k].attemptCount >= 2

\* a retry pass wrote the new attempt count of an entry that failed again
\* while another entry was in the queue
C36_WitnessPass ==
    /\ IsPass(res) /\ res.status = "200"
    /\ Len(doc.failedQueue) = 2
    /\ \E i \in 1..Len(res.details) :
          /\ res.details[i].outcome = "failed"
          /\ \E k \in 1..2 :
                /\ SameEntry(doc.failedQueue[k], res.details[i].trackId, res.details[i].playedAt)
                /\ doc.failedQueue[k].attemptCount = res.details[i].attemptCount + 1

\* C37: the success rate that endExecution stores for the day is between 0
\* and 100 inclusive
C37_SuccessRateInRange ==
    (store.daily # <<>>) =>
        /\ store.daily[1].successRate >= 0
        /\ store.daily[1].successRate <= 100

\* C37, the part that holds: the stored rate never exceeds 100, and it is not
\* negative as long as the day's errors do not outnumber its processed tracks
C37_SuccessRateInRangeUnlessMoreErrors ==
    (store.daily # <<>>) =>
        /\ store.daily[1].successRate <= 100
        /\ (SumOver(store.daily[1].errors, DailyErrorTypes) <= store.daily[1].tracksProcessed)
              => store.daily[1].successRate >= 0

\* C38: every session that archiveSession archived is in the archive under
\* its sessionId, with the content it was archived with
C38_ArchivedSessionsKept ==
    \A i \in 1..Len(procs.archived) :
        /\ procs.archived[i].sessionId \in DOMAIN store.archive
        /\ store.archive[procs.archived[i].sessionId] = procs.archived[i]

\* C38, the part that holds: the archive keeps, under each sessionId, the
\* session archived last under that id
C38_LastArchivedOfEachIdKept ==
    \A i \in 1..Len(procs.archived) :
        (\A j \in (i + 1)..Len(procs.archived) :
            procs.archived[j].sessionId # procs.archived[i].sessionId)
        => /\ procs.archived[i].sessionId \in DOMAIN store.archive
           /\ store.archive[procs.archived[i].sessionId] = procs.archived[i]

====
